---- MODULE Spec2Model ----
(***************************************************************************)
(* PokeAlarm: the webhook distributor (start_pokealarm.py), the normalizer *)
(* (WebhookStructs/RocketMap.py) and the per-subscriber Manager loop with  *)
(* its kind-specific handlers (Manager.py).                                *)
(*                                                                         *)
(* Values.  Python's None is NoneV, the '?' sentinel is Q, the 'unkn'      *)
(* distance is Unkn; all three are negative integers so that they can sit  *)
(* in the same fields as the numbers they replace.  Times are integer      *)
(* multiples of five minutes.  Coordinates are points of a small           *)
(* one-dimensional grid and the earth distance between two points is the   *)
(* absolute difference.                                                    *)
(*                                                                         *)
(* Manager.py imports members that Filters.py of this tree does not        *)
(* define (load_weather_section, the 'park_check' and 'contains' settings, *)
(* PokemonFilter.check_mention).  A Manager can only be imported against a *)
(* Filters module that has them, so they are modelled as present, from     *)
(* the way Manager.py uses them.  Cache, Geofence, Alarms and              *)
(* LocationServices are modelled from their documented contracts.          *)
(***************************************************************************)
EXTENDS Integers, Sequences, FiniteSets, TLC

NoneV == -2
Q == -1
Unkn == -3

\* ---------------------------------------------------------------- bounds
MaxEvents == 2
MaxQueue == 2
MaxTime == 2
MaxTeam == 2
MaxEdits == 1

\* ------------------------------------------------------ program constants
CleanInterval == 1
NeutralTeam == 0
DefaultTeams == {0, 1, 2, 3}
InfDist == 9

ManagerNames == {"m1", "m2"}
AlarmIds == {"a1", "a2"}
Keys == {"k1", "k2"}
DedupKinds == {"pokemon", "pokestop", "egg", "raid"}
Points == {0, 1}

VARIABLES
    managers,        \* start_pokealarm.managers: the registered Manager names
    queue,           \* Manager.__queue, per Manager
    pc,              \* position of Manager.run: "loop", "join", "stopped", "crashed"
    obj,             \* obj of run: the object last taken from the queue
    threads,         \* the sink tasks spawned by the handler in progress
    alerts,          \* number of <kind>_alert calls each sink has received
    cache,           \* Manager.__cache: dedup expirations per kind and key
    gym_team,        \* Manager.__cache: last known team per gym
    weather_cache,   \* Manager.__cache: last known weather and severity per cell
    location,        \* Manager.__location
    settings,        \* the six __<kind>_settings dictionaries, __time_limit, __loc_service
    geofences,       \* Manager.__geofences
    alarms,          \* Manager.__alarms
    now,             \* datetime.utcnow()
    last_clean,      \* last_clean of Manager.run
    distributed,     \* arrival numbers of the events put on the queues, in order
    handled,         \* arrival numbers of the events each Manager has popped, in order
    last_log,        \* the place the last handler call of each Manager ended at
    event,           \* Manager.__event: the stop flag, per Manager
    supervisor,      \* position of start_pokealarm: serving, or inside exit_gracefully
    disk,            \* what the cache of each Manager has saved for the next start
    watcher,         \* Manager.__watchercfg and the watched files, per Manager
    call             \* a direct call of a filter function: arguments and result

vars == <<managers, queue, pc, obj, threads, alerts, cache, gym_team,
          weather_cache, location, settings, geofences, alarms, now,
          last_clean, distributed, handled, last_log, event, supervisor,
          disk, watcher, call>>

\* ------------------------------------------------------------------ events
\* The '-' the normalizer stores for a move rating the payload does not carry.
Dash == -4

\* Every normalized event is a record of the same shape; the fields a kind
\* does not have keep the value of Blank.
Blank ==
    [type |-> "none", id |-> "k1", n |-> 0, exp |-> NoneV, begin |-> NoneV,
     lat |-> 0, lng |-> 0, pkmn_id |-> 0, cp |-> Q, iv |-> Q,
     gendername |-> Q, new_team_id |-> 0, is_in_battle |-> 0,
     slots_available |-> Q, raid_level |-> 0, new_gameplay_weather |-> 0,
     new_severity_weather |-> 0, wind_direction |-> Q, latitude |-> "latlng",
     level |-> Q, atk |-> Q, def |-> Q, sta |-> Q, quick_id |-> Q,
     charge_id |-> Q, size |-> "unknown", gender |-> "?", form_id |-> Q,
     rating_attack |-> Dash, rating_defense |-> Dash, mention |-> ""]

\* ------------------------------------------------------------------- Cache
\* Cache.get_<kind>_expiration: the stored expiration, None for a key that
\* has no entry.
get_expiration(m, kind, id) == cache[m][kind][id]

\* Cache.update_<kind>_expiration: store (overwrite) the expiration.
update_expiration(c, kind, id, exp) == [c EXCEPT ![kind][id] = exp]

\* Cache.clean_and_save: drop every entry whose expiration is at or before t.
clean_and_save(c, t) ==
    [k \in DedupKinds |-> [i \in Keys |->
        IF c[k][i] # NoneV /\ c[k][i] <= t THEN NoneV ELSE c[k][i]]]

\* A cache without entries, and one with the dedup entries c and the
\* last known teams and weather of Manager m.
EmptyCache ==
    [cache |-> [k \in DedupKinds |-> [i \in Keys |-> NoneV]],
     gym_team |-> [i \in Keys |-> Q],
     weather_cache |-> [i \in Keys |-> <<Q, Q>>]]
snapshot(m, c) ==
    [cache |-> c, gym_team |-> gym_team[m],
     weather_cache |-> weather_cache[m]]

\* The save half of Cache.clean_and_save: the file cache writes its
\* content where the next start finds it, the memory cache keeps nothing
\* outside the process.  saved is what was written before.
persist(cache_type, content, saved) ==
    IF cache_type = "file" THEN content ELSE saved

\* cache_factory(cache_type, name): the file cache starts with what was
\* saved, the memory cache starts empty.
cache_factory(cache_type, saved) ==
    IF cache_type = "file" THEN saved ELSE EmptyCache

\* Cache.get_gym_team: the last known team, '?' for a gym never seen.
get_gym_team(m, id) == gym_team[m][id]

\* Cache.get_weather_change / get_severity_change: <<weather, severity>>
\* last stored for the cell, '?' for a cell never seen.
get_weather_change(m, id) == weather_cache[m][id][1]
get_severity_change(m, id) == weather_cache[m][id][2]

\* ---------------------------------------------------------------- Geofence
\* A geofence is a name and the set of grid points its polygon contains.
gf_contains(gf, lat, lng) == lat \in gf.pts

RECURSIVE first_containing(_, _, _, _)
first_containing(gfs, i, lat, lng) ==
    IF i > Len(gfs) THEN "unknown"
    ELSE IF gf_contains(gfs[i], lat, lng) THEN gfs[i].name
    ELSE first_containing(gfs, i + 1, lat, lng)

check_geofences(m, lat, lng) == first_containing(geofences[m], 1, lat, lng)

\* The gate every handler applies to the result of check_geofences.
outside_geofences(m, lat, lng) ==
    Len(geofences[m]) > 0 /\ check_geofences(m, lat, lng) = "unknown"

\* ------------------------------------------------------------------- Utils
get_earth_dist(pt_a, pt_b) ==
    IF pt_b = NoneV THEN Unkn
    ELSE IF pt_a >= pt_b THEN pt_a - pt_b ELSE pt_b - pt_a

\* ----------------------------------------------------------------- Filters
check_dist(filt, dist) == filt.min_dist <= dist /\ dist <= filt.max_dist
check_cp(filt, cp) == filt.min_cp <= cp /\ cp <= filt.max_cp
check_iv(filt, iv) == filt.min_iv <= iv /\ iv <= filt.max_iv
check_level(filt, level) == filt.min_level <= level /\ level <= filt.max_level
check_atk(filt, atk) == filt.min_atk <= atk /\ atk <= filt.max_atk
check_def(filt, def_) == filt.min_def <= def_ /\ def_ <= filt.max_def
check_sta(filt, sta) == filt.min_sta <= sta /\ sta <= filt.max_sta

\* An optional set of a filter (req_quick_move, req_charge_move, req_moveset,
\* sizes, genders, forms) is None, written <<>>, or a set S, written <<S>>.
None == <<>>
check_quick_move(filt, move_id) ==
    IF filt.req_quick_move = None THEN TRUE
    ELSE move_id \in filt.req_quick_move[1]
check_charge_move(filt, move_id) ==
    IF filt.req_charge_move = None THEN TRUE
    ELSE move_id \in filt.req_charge_move[1]
check_moveset_first_move_only(filt, move_1_id, move_2_id) ==
    IF filt.req_moveset = None THEN TRUE
    ELSE \E ms \in filt.req_moveset[1] : move_1_id \in ms
check_moveset(filt, move_1_id, move_2_id) ==
    IF filt.req_moveset = None THEN TRUE
    ELSE \E ms \in filt.req_moveset[1] : move_1_id \in ms /\ move_2_id \in ms
check_size(filt, size) ==
    IF filt.sizes = None THEN TRUE ELSE size \in filt.sizes[1]
check_gender(filt, gender) ==
    IF filt.genders = None THEN TRUE ELSE gender \in filt.genders[1]
check_form(filt, form_id) ==
    IF filt.forms = None THEN TRUE ELSE form_id \in filt.forms[1]

\* A move rating is one letter, compared as a string: the model writes a
\* letter as its position in the alphabet, so 'A' is 1 and 'F' is 6.
GradeA == 1
GradeB == 2
GradeC == 3
GradeD == 4
GradeE == 5
GradeF == 6
check_rating_attack_bounds_swapped(filt, rating_attack) ==
    /\ filt.max_rating_attack >= rating_attack
    /\ rating_attack >= filt.min_rating_attack
check_rating_attack(filt, rating_attack) ==
    /\ filt.min_rating_attack >= rating_attack
    /\ rating_attack >= filt.max_rating_attack
check_rating_defense(filt, rating_defense) ==
    /\ filt.min_rating_defense >= rating_defense
    /\ rating_defense >= filt.max_rating_defense
check_from_team(filt, team_id) == team_id \in filt.from_team
check_to_team(filt, team_id) == team_id \in filt.to_team

\* Filter.get_defaults / PokemonFilter.get_defaults / GymFilter.get_defaults
MaxCp == 9
FilterDefaults == [min_dist |-> 0, max_dist |-> InfDist]
PokemonDefaults ==
    [min_dist |-> 0, max_dist |-> InfDist, ignore_missing |-> FALSE,
     min_cp |-> 0, max_cp |-> MaxCp, needs_cp |-> FALSE,
     min_iv |-> 0, max_iv |-> 100, needs_iv |-> FALSE,
     min_level |-> 0, max_level |-> 40, needs_level |-> FALSE,
     min_atk |-> 0, max_atk |-> 15, needs_atk |-> FALSE,
     min_def |-> 0, max_def |-> 15, needs_def |-> FALSE,
     min_sta |-> 0, max_sta |-> 15, needs_sta |-> FALSE,
     req_quick_move |-> None, req_charge_move |-> None,
     req_moveset |-> None, sizes |-> None, genders |-> None, forms |-> None,
     min_rating_attack |-> GradeF, max_rating_attack |-> GradeA,
     needs_rating_attack |-> FALSE,
     min_rating_defense |-> GradeF, max_rating_defense |-> GradeA,
     needs_rating_defense |-> FALSE, mention |-> ""]
GymDefaults ==
    [min_dist |-> 0, max_dist |-> InfDist,
     from_team |-> DefaultTeams, to_team |-> DefaultTeams]

\* The checks of one pass of the loop body of check_pokemon_filter, in the
\* order the code makes them.
CheckOrder ==
    <<"dist", "cp", "level", "iv", "atk", "def", "sta", "quick_move",
      "charge_move", "moveset", "size", "gender", "form", "rating_attack",
      "rating_defense">>

\* The branch a check takes for a value that is missing: it rejects
\* (continue) exactly when the filter constrains the field and
\* ignore_missing is set.
missing_rejects(filt, constrained) == constrained /\ filt.ignore_missing

\* One check of the loop body: TRUE when the check does not reach its
\* continue, that is, when filter filt goes on to the next check.
check_accepts(c, filt, pkmn, dist) ==
    CASE c = "dist" -> dist # Unkn => check_dist(filt, dist)
      [] c = "cp" ->
            IF pkmn.cp # Q THEN check_cp(filt, pkmn.cp)
            ELSE ~missing_rejects(filt, filt.needs_cp)
      [] c = "level" ->
            IF pkmn.level # Q THEN check_level(filt, pkmn.level)
            ELSE ~missing_rejects(filt, filt.needs_level)
      [] c = "iv" ->
            IF pkmn.iv # Q THEN check_iv(filt, pkmn.iv)
            ELSE ~missing_rejects(filt, filt.needs_iv)
      [] c = "atk" ->
            IF pkmn.atk # Q THEN check_atk(filt, pkmn.atk)
            ELSE ~missing_rejects(filt, filt.needs_atk)
      [] c = "def" ->
            IF pkmn.def # Q THEN check_def(filt, pkmn.def)
            ELSE ~missing_rejects(filt, filt.needs_def)
      [] c = "sta" ->
            IF pkmn.sta # Q THEN check_sta(filt, pkmn.sta)
            ELSE ~missing_rejects(filt, filt.needs_sta)
      [] c = "quick_move" ->
            IF pkmn.quick_id # Q THEN check_quick_move(filt, pkmn.quick_id)
            ELSE ~missing_rejects(filt, filt.req_quick_move # None)
      [] c = "charge_move" ->
            IF pkmn.charge_id # Q THEN check_charge_move(filt, pkmn.charge_id)
            ELSE ~missing_rejects(filt, filt.req_charge_move # None)
      [] c = "moveset" ->
            IF pkmn.quick_id # Q /\ pkmn.charge_id # Q
            THEN check_moveset(filt, pkmn.quick_id, pkmn.charge_id)
            ELSE ~missing_rejects(filt, filt.req_moveset # None)
      [] c = "size" ->
            IF pkmn.size # "unknown" THEN check_size(filt, pkmn.size)
            ELSE ~missing_rejects(filt, filt.sizes # None)
      [] c = "gender" ->
            IF pkmn.gender # "unknown" THEN check_gender(filt, pkmn.gender)
            ELSE ~missing_rejects(filt, filt.genders # None)
      [] c = "form" -> pkmn.form_id # Q => check_form(filt, pkmn.form_id)
      [] c = "rating_attack" ->
            IF pkmn.rating_attack \notin {Q, Dash}
            THEN check_rating_attack(filt, pkmn.rating_attack)
            ELSE ~missing_rejects(filt, filt.needs_rating_attack)
      [] c = "rating_defense" ->
            IF pkmn.rating_defense \notin {Q, Dash}
            THEN check_rating_defense(filt, pkmn.rating_defense)
            ELSE ~missing_rejects(filt, filt.needs_rating_defense)

\* A variant that leaves out the last two checks of the order.
first_reject_before_ratings(order, filt, pkmn, dist) ==
    LET rej == {i \in 1..(Len(order) - 2) :
                    ~check_accepts(order[i], filt, pkmn, dist)}
    IN  IF rej = {} THEN 0 ELSE CHOOSE i \in rej : \A j \in rej : i <= j

\* The checks made in the order given: the position of the first one that
\* reaches its continue, 0 when none does.
first_reject(order, filt, pkmn, dist) ==
    LET rej == {i \in 1..Len(order) :
                    ~check_accepts(order[i], filt, pkmn, dist)}
    IN  IF rej = {} THEN 0 ELSE CHOOSE i \in rej : \A j \in rej : i <= j

\* One pass of the loop body of check_pokemon_filter for filter filt: TRUE
\* when it reaches passed = True, that is, when no check of the filter
\* reached its continue.
pokemon_filter_passes(filt, pkmn, dist) ==
    first_reject(CheckOrder, filt, pkmn, dist) = 0

\* PokemonFilter.check_mention: the mention text the filter was given.
check_mention(filt) == filt.mention

\* The for loop of check_pokemon_filter from filter number i on: the first
\* filter that passes sets passed and mention and breaks; tried is the
\* number of filters the loop has looked at when it ends.
\* (variant: a loop without the break, where the last passing filter decides)
RECURSIVE filter_loop_without_break(_, _, _, _)
filter_loop_without_break(filters, pkmn, dist, i) ==
    IF i > Len(filters)
    THEN [passed |-> FALSE, mention |-> pkmn.mention, tried |-> Len(filters)]
    ELSE LET rest == filter_loop_without_break(filters, pkmn, dist, i + 1)
         IN  IF ~rest.passed /\ pokemon_filter_passes(filters[i], pkmn, dist)
             THEN [passed |-> TRUE, mention |-> check_mention(filters[i]),
                   tried |-> Len(filters)]
             ELSE rest
RECURSIVE filter_loop(_, _, _, _)
filter_loop(filters, pkmn, dist, i) ==
    IF i > Len(filters)
    THEN [passed |-> FALSE, mention |-> pkmn.mention, tried |-> Len(filters)]
    ELSE IF pokemon_filter_passes(filters[i], pkmn, dist)
    THEN [passed |-> TRUE, mention |-> check_mention(filters[i]),
          tried |-> i]
    ELSE filter_loop(filters, pkmn, dist, i + 1)

\* check_pokemon_filter: passed when some filter of the list passes.
check_pokemon_filter(filters, pkmn, dist) ==
    filter_loop(filters, pkmn, dist, 1).passed

\* The filter loop of process_pokestop and process_weather: distance only.
check_dist_filters(filters, dist) ==
    \E i \in 1..Len(filters) : dist # Unkn => check_dist(filters[i], dist)

\* The filter loop of process_gym_info.
check_gym_filters(filters, dist, from_team_id, to_team_id) ==
    \E i \in 1..Len(filters) :
        /\ (dist # Unkn => check_dist(filters[i], dist))
        /\ check_from_team(filters[i], from_team_id)
        /\ check_to_team(filters[i], to_team_id)

\* ---------------------------------------------------------------- handlers
\* How a handler call ends, by the place it ends at: "dispatch" (one sink
\* task spawned per alarm), "raise" (an Exception propagates to run),
\* "exit" (SystemExit propagates to run), any other place is a return
\* without a sink task.
OutOf(why) == IF why \in {"dispatch", "raise", "exit"} THEN why ELSE "return"

\* The result of one handler call for Manager m: the place it ended at and
\* the state it leaves.
Res(m, why) ==
    [why |-> why, out |-> OutOf(why), cache |-> cache[m],
     gym_team |-> gym_team[m], weather_cache |-> weather_cache[m],
     location |-> location[m]]

Ret(r, why) == [r EXCEPT !.why = why, !.out = OutOf(why)]

\* The "previously processed" test of process_pokemon, process_pokestop,
\* process_egg and process_raid.
\* (variant: every kind looks the key up among the pokemon entries)
previously_processed_pokemon_only(m, kind, id) ==
    get_expiration(m, "pokemon", id) # NoneV
\* (variant: eggs and raids look the key up in one table)
previously_processed_egg_or_raid(m, kind, id) ==
    IF kind \in {"egg", "raid"}
    THEN get_expiration(m, "egg", id) # NoneV
            \/ get_expiration(m, "raid", id) # NoneV
    ELSE get_expiration(m, kind, id) # NoneV
previously_processed(m, kind, id) == get_expiration(m, kind, id) # NoneV

\* The branch taken when the key was previously processed: log and return.
\* (variant: the stored expiration is refreshed before returning)
skip_processed_refreshing(m, kind, id, exp) ==
    [Res(m, "processed") EXCEPT !.cache =
        update_expiration(cache[m], kind, id, exp)]
skip_processed(m, kind, id, exp) == Res(m, "processed")

\* seconds_left < self.__time_limit
too_late(m, exp) == exp - now < settings[m].time_limit

\* The enrichment of process_pokemon: Gender.Name(gendername) is called
\* whenever gendername is truthy and raises for the '?' sentinel.
pokemon_enrich_raises(pkmn) == pkmn.gendername = Q

process_pokemon(m, pkmn) ==
    IF ~settings[m].pokemon.enabled THEN Res(m, "disabled")
    ELSE IF previously_processed(m, "pokemon", pkmn.id)
    THEN skip_processed(m, "pokemon", pkmn.id, pkmn.exp)
    ELSE
      LET r == [Res(m, "return") EXCEPT !.cache =
                   update_expiration(cache[m], "pokemon", pkmn.id, pkmn.exp)]
          dist == get_earth_dist(pkmn.lat, location[m])
          filters == settings[m].pokemon.filters
      IN  IF too_late(m, pkmn.exp) THEN Ret(r, "late")
          ELSE IF pkmn.pkmn_id \notin DOMAIN filters THEN Ret(r, "nofilter")
          ELSE IF ~check_pokemon_filter(filters[pkmn.pkmn_id], pkmn, dist)
          THEN Ret(r, "filter")
          ELSE IF outside_geofences(m, pkmn.lat, pkmn.lng)
          THEN Ret(r, "geofence")
          ELSE IF pokemon_enrich_raises(pkmn) THEN Ret(r, "raise")
          ELSE Ret(r, "dispatch")

process_pokestop(m, stop) ==
    IF ~settings[m].pokestop.enabled THEN Res(m, "disabled")
    ELSE IF previously_processed(m, "pokestop", stop.id)
    THEN skip_processed(m, "pokestop", stop.id, stop.exp)
    ELSE
      LET r == [Res(m, "return") EXCEPT !.cache =
                   update_expiration(cache[m], "pokestop", stop.id, stop.exp)]
          dist == get_earth_dist(stop.lat, location[m])
      IN  IF too_late(m, stop.exp) THEN Ret(r, "late")
          ELSE IF ~check_dist_filters(settings[m].pokestop.filters, dist)
          THEN Ret(r, "filter")
          ELSE IF outside_geofences(m, stop.lat, stop.lng)
          THEN Ret(r, "geofence")
          ELSE Ret(r, "dispatch")

\* The enrichment of process_gym_info, process_raid and process_egg
\* computes 6 - slots_available, which raises for the '?' sentinel.
slots_raise(e) == e.slots_available = Q

process_raid(m, raid) ==
    IF ~settings[m].raid.enabled THEN Res(m, "disabled")
    ELSE IF previously_processed(m, "raid", raid.id)
    THEN skip_processed(m, "raid", raid.id, raid.exp)
    ELSE
      LET r == [Res(m, "return") EXCEPT !.cache =
                   update_expiration(cache[m], "raid", raid.id, raid.exp)]
          dist == get_earth_dist(raid.lat, location[m])
          filters == settings[m].raid.filters
          raid_pkmn ==
              [cp |-> raid.cp, iv |-> 100, level |-> 20, def |-> 15,
               atk |-> 15, sta |-> 15, gender |-> "unknown",
               size |-> "unknown", form_id |-> Q,
               quick_id |-> raid.quick_id, charge_id |-> raid.charge_id,
               rating_attack |-> GradeA,
               rating_defense |-> GradeA, mention |-> "None"]
      IN  IF raid.exp = NoneV THEN Ret(r, "raise")
          ELSE IF too_late(m, raid.exp) THEN Ret(r, "late")
          ELSE IF /\ settings[m].raid.contains # {}
                  /\ raid.id \notin settings[m].raid.contains
          THEN Ret(r, "contains")
          ELSE IF outside_geofences(m, raid.lat, raid.lng)
          THEN Ret(r, "geofence")
          ELSE IF raid.pkmn_id \notin DOMAIN filters THEN Ret(r, "nofilter")
          ELSE IF ~check_pokemon_filter(filters[raid.pkmn_id], raid_pkmn, dist)
          THEN Ret(r, "filter")
          ELSE IF raid.begin = NoneV \/ slots_raise(raid)
          THEN Ret(r, "raise")
          ELSE Ret(r, "dispatch")

check_egg_filter(egg_settings, egg, dist) ==
    /\ egg.raid_level >= egg_settings.min_level
    /\ egg.raid_level <= egg_settings.max_level
    /\ (dist # Unkn =>
          egg_settings.min_dist <= dist /\ dist <= egg_settings.max_dist)

\* process_egg keys the dedup entry by the egg's id and stores raid_begin.
\* (variant: the entry is stored only for an egg that is dispatched)
process_egg_recording_dispatched(m, egg) ==
    IF ~settings[m].egg.enabled THEN Res(m, "disabled")
    ELSE IF previously_processed(m, "egg", egg.id)
    THEN skip_processed(m, "egg", egg.id, egg.begin)
    ELSE
      LET r == Res(m, "return")
          dist == get_earth_dist(egg.lat, location[m])
      IN  IF egg.begin = NoneV THEN Ret(r, "raise")
          ELSE IF too_late(m, egg.begin) THEN Ret(r, "late")
          ELSE IF /\ settings[m].egg.contains # {}
                  /\ egg.id \notin settings[m].egg.contains
          THEN Ret(r, "contains")
          ELSE IF outside_geofences(m, egg.lat, egg.lng)
          THEN Ret(r, "geofence")
          ELSE IF ~check_egg_filter(settings[m].egg, egg, dist)
          THEN Ret(r, "filter")
          ELSE IF egg.exp = NoneV \/ slots_raise(egg) THEN Ret(r, "raise")
          ELSE [Ret(r, "dispatch") EXCEPT !.cache =
                   update_expiration(cache[m], "egg", egg.id, egg.begin)]
process_egg(m, egg) ==
    IF ~settings[m].egg.enabled THEN Res(m, "disabled")
    ELSE IF previously_processed(m, "egg", egg.id)
    THEN skip_processed(m, "egg", egg.id, egg.begin)
    ELSE
      LET r == [Res(m, "return") EXCEPT !.cache =
                   update_expiration(cache[m], "egg", egg.id, egg.begin)]
          dist == get_earth_dist(egg.lat, location[m])
      IN  IF egg.begin = NoneV THEN Ret(r, "raise")
          ELSE IF too_late(m, egg.begin) THEN Ret(r, "late")
          ELSE IF /\ settings[m].egg.contains # {}
                  /\ egg.id \notin settings[m].egg.contains
          THEN Ret(r, "contains")
          ELSE IF outside_geofences(m, egg.lat, egg.lng)
          THEN Ret(r, "geofence")
          ELSE IF ~check_egg_filter(settings[m].egg, egg, dist)
          THEN Ret(r, "filter")
          ELSE IF egg.exp = NoneV \/ slots_raise(egg) THEN Ret(r, "raise")
          ELSE Ret(r, "dispatch")

\* "Ignore changes to neutral" of process_gym_info.  is_in_battle is the
\* integer the normalizer produced (check_for_none(int, ..., 0)); the code
\* compares it with the string "False", and no integer equals a string.
\* (variant: the flag is compared with the integer 0)
equals_int_0(is_in_battle) == is_in_battle = 0
equals_string_False(is_in_battle) == FALSE

ignore_neutral_change(m, to_team_id, is_in_battle) ==
    /\ settings[m].gym.ignore_neutral
    /\ to_team_id = NeutralTeam
    /\ equals_string_False(is_in_battle)

\* "Doesn't look like anything to me": no change detected.
\* (variant: the test of the in-battle flag is inverted)
gym_no_change_in_battle(to_team_id, from_team_id, is_in_battle) ==
    to_team_id = from_team_id /\ is_in_battle = 1
gym_no_change(to_team_id, from_team_id, is_in_battle) ==
    to_team_id = from_team_id /\ is_in_battle = 0

\* "Ignore first time updates": from_team_id is '?'.
gym_first_time(from_team_id) == from_team_id = Q

\* (variant: the last known team is stored after the 'enabled' test)
process_gym_info_storing_when_enabled(m, gym_info) ==
    LET to_team_id == gym_info.new_team_id
        from_team_id == get_gym_team(m, gym_info.id)
        dist == get_earth_dist(gym_info.lat, location[m])
    IN
    IF ignore_neutral_change(m, to_team_id, gym_info.is_in_battle)
    THEN Res(m, "neutral")
    ELSE IF ~settings[m].gym.enabled THEN Res(m, "disabled")
    ELSE
      LET r == [Res(m, "return") EXCEPT !.gym_team =
                   [gym_team[m] EXCEPT ![gym_info.id] = to_team_id]]
      IN  IF gym_no_change(to_team_id, from_team_id,
                           gym_info.is_in_battle)
          THEN Ret(r, "nochange")
          ELSE IF gym_first_time(from_team_id) THEN Ret(r, "first")
          ELSE IF ~check_gym_filters(settings[m].gym.filters, dist,
                                     from_team_id, to_team_id)
          THEN Ret(r, "filter")
          ELSE IF outside_geofences(m, gym_info.lat, gym_info.lng)
          THEN Ret(r, "geofence")
          ELSE IF slots_raise(gym_info) THEN Ret(r, "raise")
          ELSE Ret(r, "dispatch")
process_gym_info(m, gym_info) ==
    LET to_team_id == gym_info.new_team_id
        from_team_id == get_gym_team(m, gym_info.id)
        dist == get_earth_dist(gym_info.lat, location[m])
    IN
    IF ignore_neutral_change(m, to_team_id, gym_info.is_in_battle)
    THEN Res(m, "neutral")
    ELSE
      LET r == [Res(m, "return") EXCEPT !.gym_team =
                   [gym_team[m] EXCEPT ![gym_info.id] = to_team_id]]
      IN  IF ~settings[m].gym.enabled THEN Ret(r, "disabled")
          ELSE IF gym_no_change(to_team_id, from_team_id,
                                gym_info.is_in_battle)
          THEN Ret(r, "nochange")
          ELSE IF gym_first_time(from_team_id) THEN Ret(r, "first")
          ELSE IF ~check_gym_filters(settings[m].gym.filters, dist,
                                     from_team_id, to_team_id)
          THEN Ret(r, "filter")
          ELSE IF outside_geofences(m, gym_info.lat, gym_info.lng)
          THEN Ret(r, "geofence")
          ELSE IF slots_raise(gym_info) THEN Ret(r, "raise")
          ELSE Ret(r, "dispatch")

\* "Doesn't look like anything to me" of process_weather.
weather_no_change(to_gw, from_gw, to_sev, from_sev) ==
    to_gw = from_gw /\ to_sev = from_sev

\* "Ignore first time updates" of process_weather.
\* (variant: the previous values are compared with None, not '?')
weather_first_time_is_None(from_gw, from_sev) ==
    from_gw = NoneV \/ from_sev = NoneV
weather_first_time(from_gw, from_sev) == from_gw = Q \/ from_sev = Q

\* degrees_to_cardinal(weather['wind_direction']) raises for the '?' sentinel.
weather_enrich_raises(weather) == weather.wind_direction = Q

process_weather(m, weather) ==
    IF ~settings[m].weather.enabled THEN Res(m, "disabled")
    ELSE
      LET to_gw == weather.new_gameplay_weather
          to_sev == weather.new_severity_weather
          from_gw == get_weather_change(m, weather.id)
          from_sev == get_severity_change(m, weather.id)
          r == [Res(m, "return") EXCEPT !.weather_cache =
                   [weather_cache[m] EXCEPT ![weather.id] = <<to_gw, to_sev>>]]
          dist == get_earth_dist(weather.lat, location[m])
      IN  IF weather_no_change(to_gw, from_gw, to_sev, from_sev)
          THEN Ret(r, "nochange")
          ELSE IF weather_first_time(from_gw, from_sev) THEN Ret(r, "first")
          ELSE IF ~check_dist_filters(settings[m].weather.filters, dist)
          THEN Ret(r, "filter")
          ELSE IF outside_geofences(m, weather.lat, weather.lng)
          THEN Ret(r, "geofence")
          ELSE IF weather_enrich_raises(weather) THEN Ret(r, "raise")
          ELSE Ret(r, "dispatch")

\* set_location(location).  coords is "latlng" when the text matches the
\* Lat,Lng pattern, anything else goes to the location service when there
\* is one; geo is what get_location_from_name returns (a point or None).
\* A None result ends in sys.exit(1).
set_location(m, coords, pt, geo) ==
    IF coords = "latlng" THEN [Res(m, "located") EXCEPT !.location = pt]
    ELSE IF ~settings[m].loc_service THEN Res(m, "nokey")
    ELSE IF geo = NoneV
         THEN [Res(m, "exit") EXCEPT !.location = NoneV]
         ELSE [Res(m, "located") EXCEPT !.location = geo]

\* process_location(coords): coords['latitude'] raises KeyError when the
\* payload has no such key.
process_location(m, coords, geo) ==
    IF coords.latitude = "missing" THEN Res(m, "raise")
    ELSE set_location(m, coords.latitude, coords.lat, geo)

\* The six __<kind>_settings dictionaries, in the order load_filter_file
\* assigns them, and the empty dictionary {} they are reset to.
SectionOrder == <<"pokemon", "pokestop", "gym", "egg", "raid", "weather">>
Sections == {SectionOrder[i] : i \in 1..Len(SectionOrder)}
EmptyDict == [empty |-> TRUE]

\* The first statement of every handler that has a settings dictionary
\* reads a key of it ('enabled', for gyms 'ignore_neutral'): KeyError on {}.
settings_KeyError(m, kind) == kind \in Sections /\ settings[m][kind] = EmptyDict

\* The dispatch on obj['type'] of run; an unsupported kind is logged.
Handle(m, o, geo) ==
    IF settings_KeyError(m, o.type) THEN Res(m, "raise") ELSE
    CASE o.type = "pokemon" -> process_pokemon(m, o)
      [] o.type = "pokestop" -> process_pokestop(m, o)
      [] o.type = "gym" -> process_gym_info(m, o)
      [] o.type = "egg" -> process_egg(m, o)
      [] o.type = "raid" -> process_raid(m, o)
      [] o.type = "weather" -> process_weather(m, o)
      [] o.type = "location" -> process_location(m, o, geo)
      [] OTHER -> Res(m, "unsupported")

\* -------------------------------------------------------------- normalizer
\* A raw webhook payload: type and the fields of its message; a field the
\* payload does not carry is None.
RawBlank ==
    [type |-> "none", id |-> "k1", expire |-> NoneV, start |-> NoneV,
     latitude |-> NoneV, pokemon_id |-> NoneV, cp |-> NoneV, ivsum |-> NoneV,
     gender |-> NoneV, team |-> NoneV, is_in_battle |-> NoneV,
     slots_available |-> NoneV, level |-> NoneV,
     gameplay_weather |-> NoneV, severity |-> NoneV,
     wind_direction |-> NoneV, coords |-> "latlng"]

check_for_none(val, default) == IF val # NoneV THEN val ELSE default

\* Utils.get_pokemon_gender: the symbol of gender 1, 2 or 3, '?' otherwise.
get_pokemon_gender(gender) ==
    CASE gender = 1 -> "male"
      [] gender = 2 -> "female"
      [] gender = 3 -> "neutral"
      [] OTHER -> "?"

\* RocketMap.pokemon: iv is computed only when the three IVs are present.
RocketMap_pokemon(data) ==
    [Blank EXCEPT !.type = "pokemon", !.id = data.id, !.exp = data.expire,
        !.lat = data.latitude, !.pkmn_id = data.pokemon_id,
        !.cp = check_for_none(data.cp, Q),
        !.iv = IF data.ivsum # NoneV THEN (data.ivsum * 100) \div 45 ELSE Q,
        !.gendername = check_for_none(data.gender, Q),
        !.gender = get_pokemon_gender(check_for_none(data.gender, Q))]

\* (variant: a pokestop without a lure is converted like a lured one)
RocketMap_pokestop_without_lure_test(data) ==
    [Blank EXCEPT !.type = "pokestop", !.id = data.id,
        !.exp = data.expire, !.lat = data.latitude]
RocketMap_pokestop(data) ==
    IF data.expire = NoneV THEN Blank
    ELSE [Blank EXCEPT !.type = "pokestop", !.id = data.id,
             !.exp = data.expire, !.lat = data.latitude]

RocketMap_gym_info(data) ==
    [Blank EXCEPT !.type = "gym", !.id = data.id, !.lat = data.latitude,
        !.new_team_id = data.team,
        !.is_in_battle = check_for_none(data.is_in_battle, 0),
        !.slots_available = check_for_none(data.slots_available, Q)]

RocketMap_egg(data) ==
    [Blank EXCEPT !.type = "egg", !.id = data.id, !.lat = data.latitude,
        !.begin = data.start, !.exp = data.expire,
        !.raid_level = check_for_none(data.level, 0),
        !.slots_available = check_for_none(data.slots_available, Q)]

RocketMap_raid(data) ==
    [Blank EXCEPT !.type = "raid", !.id = data.id, !.lat = data.latitude,
        !.begin = data.start, !.exp = data.expire,
        !.pkmn_id = check_for_none(data.pokemon_id, 0),
        !.cp = check_for_none(data.cp, Q),
        !.raid_level = check_for_none(data.level, 0),
        !.slots_available = check_for_none(data.slots_available, Q)]

RocketMap_egg_or_raid(data) ==
    IF check_for_none(data.pokemon_id, 0) = 0 THEN RocketMap_egg(data)
    ELSE RocketMap_raid(data)

RocketMap_weather(data) ==
    [Blank EXCEPT !.type = "weather", !.id = data.id, !.lat = data.latitude,
        !.new_gameplay_weather = data.gameplay_weather,
        !.new_severity_weather = data.severity,
        !.wind_direction = check_for_none(data.wind_direction, Q)]

RocketMap_location(data) ==
    [Blank EXCEPT !.type = "location", !.id = data.id,
        !.lat = check_for_none(data.latitude, 0), !.latitude = data.coords]

\* RocketMap.make_object: Blank stands for the None it returns for a
\* payload it does not convert.  float(data['latitude']) and the int(...)
\* of a required field raise for a payload without the field.
make_object(data) ==
    CASE data.type = "location" -> RocketMap_location(data)
      [] data.type \in {"captcha", "scheduler"} -> Blank
      [] data.latitude = NoneV -> Blank
      [] data.type = "pokemon" ->
            IF data.pokemon_id = NoneV \/ data.expire = NoneV THEN Blank
            ELSE RocketMap_pokemon(data)
      [] data.type = "pokestop" -> RocketMap_pokestop(data)
      [] data.type = "gym_details" ->
            IF data.team = NoneV THEN Blank ELSE RocketMap_gym_info(data)
      [] data.type = "raid" -> RocketMap_egg_or_raid(data)
      [] data.type = "weather" ->
            IF data.gameplay_weather = NoneV \/ data.severity = NoneV
            THEN Blank ELSE RocketMap_weather(data)
      [] OTHER -> Blank

\* ------------------------------------------------------------- distributor
\* Manager.update: put the object at the back of the Manager's queue.
\* (variant: the object is put at the front)
update_put_front(q, o) == <<o>> \o q
update(q, o) == Append(q, o)

\* Manager.__queue is multiprocessing.Queue() without a maxsize, so the put
\* of Manager.update never waits for room, whatever the queue holds.
\* (variant: a queue of capacity one)
put_blocks_when_full(q) == Len(q) >= 1
put_blocks(q) == FALSE

\* The Managers manage_webhook_data hands an object to.
receivers == managers

\* One iteration of manage_webhook_data for payload data: the payload is
\* normalized and the object, when there is one, is put on the queue of
\* every registered Manager.  n numbers the objects in arrival order.
Distribute(data) ==
    /\ Len(distributed) < MaxEvents
    /\ \A m \in managers : Len(queue[m]) < MaxQueue
    /\ supervisor.pc # "exited"
    /\ \A m \in receivers : ~put_blocks(queue[m])
    /\ LET o == make_object(data)
           n == Len(distributed) + 1
       IN  IF o.type = "none"
           THEN UNCHANGED <<queue, distributed>>
           ELSE /\ queue' = [m \in ManagerNames |->
                      IF m \in receivers
                      THEN update(queue[m], [o EXCEPT !.n = n])
                      ELSE queue[m]]
                /\ distributed' = Append(distributed, n)
    /\ UNCHANGED <<managers, pc, obj, threads, alerts, cache, gym_team,
                   weather_cache, location, settings, geofences, alarms,
                   now, last_clean, handled, last_log>>
    /\ UNCHANGED <<event, supervisor, disk, watcher>>

\* accept_webhook and the iteration of manage_webhook_data that takes the
\* payload from data_queue, in one step.
Webhook(data) == Distribute(data) /\ UNCHANGED call

\* ----------------------------------------------------------- Manager.run
\* "Clean out visited every 5 minutes"
clean_due(m) == now - last_clean[m] > CleanInterval

\* The join of the handler: every spawned sink task has finished.
\* (variant: only the first task is joined)
joined_first_only(m) == threads[m]["a1"] # "spawned"
joined(m) == \A a \in AlarmIds : threads[m][a] # "spawned"

\* What get_location_from_name can return for the object: only a location
\* object whose text is not a Lat,Lng pair reaches the location service.
GeoResults(m, o) ==
    IF o.type = "location" /\ o.latitude = "text" /\ settings[m].loc_service
    THEN {NoneV} \cup Points ELSE {NoneV}

\* Where run continues after the handler call ended with out.
after_handler(m, out) ==
    CASE out = "exit" -> "crashed"
      [] out = "dispatch" /\ alarms[m] # {} -> "join"
      [] OTHER -> "loop"

\* One iteration of run that gets an object: the object at the front of
\* the queue is removed and its handler runs up to the point where the
\* sink tasks are spawned.
Run(m) ==
    /\ m \in managers
    /\ pc[m] = "loop"
    /\ ~clean_due(m)
    /\ queue[m] # <<>>
    /\ \E geo \in GeoResults(m, Head(queue[m])) :
         LET o == Head(queue[m])
             r == Handle(m, o, geo)
             next == after_handler(m, r.out)
         IN  /\ queue' = [queue EXCEPT ![m] = Tail(queue[m])]
             /\ handled' = [handled EXCEPT ![m] = Append(handled[m], o.n)]
             /\ cache' = [cache EXCEPT ![m] = r.cache]
             /\ gym_team' = [gym_team EXCEPT ![m] = r.gym_team]
             /\ weather_cache' = [weather_cache EXCEPT ![m] = r.weather_cache]
             /\ location' = [location EXCEPT ![m] = r.location]
             /\ pc' = [pc EXCEPT ![m] = next]
             /\ obj' = [obj EXCEPT ![m] = o]
             /\ threads' = [threads EXCEPT ![m] = [a \in AlarmIds |->
                    IF next = "join" /\ a \in alarms[m]
                    THEN "spawned" ELSE threads[m][a]]]
             /\ last_log' = [last_log EXCEPT ![m] = r.why]
    /\ UNCHANGED <<managers, alerts, settings, geofences, alarms, now,
                   last_clean, distributed>>
    /\ UNCHANGED <<event, supervisor, disk, watcher>>
    /\ UNCHANGED call

\* A sink task runs: alarm.<kind>_alert(obj) is called and the task ends.
SinkRun(m, a) ==
    /\ m \in managers
    /\ threads[m][a] = "spawned"
    /\ threads' = [threads EXCEPT ![m][a] = "done"]
    /\ alerts' = [alerts EXCEPT ![m][a] = alerts[m][a] + 1]
    /\ UNCHANGED <<managers, queue, pc, obj, cache, gym_team, weather_cache,
                   location, settings, geofences, alarms, now, last_clean,
                   distributed, handled, last_log>>
    /\ UNCHANGED <<event, supervisor, disk, watcher>>
    /\ UNCHANGED call

\* "for thread in threads: thread.join()", then the handler returns.
Join(m) ==
    /\ m \in managers
    /\ pc[m] = "join"
    /\ joined(m)
    /\ pc' = [pc EXCEPT ![m] = "loop"]
    /\ threads' = [threads EXCEPT ![m] = [a \in AlarmIds |->
           IF threads[m][a] = "done" THEN "none" ELSE threads[m][a]]]
    /\ UNCHANGED <<managers, queue, obj, alerts, cache, gym_team, weather_cache,
                   location, settings, geofences, alarms, now, last_clean,
                   distributed, handled, last_log>>
    /\ UNCHANGED <<event, supervisor, disk, watcher>>
    /\ UNCHANGED call

\* The cache sweep at the top of the loop.
\* (variant: the timer is reset and the cache is left as it is)
Clean_resetting_timer_only(m) ==
    /\ m \in managers
    /\ pc[m] = "loop"
    /\ clean_due(m)
    /\ last_clean' = [last_clean EXCEPT ![m] = now]
    /\ UNCHANGED <<managers, queue, pc, obj, threads, alerts, cache, gym_team,
                   weather_cache, location, settings, geofences, alarms,
                   now, distributed, handled, last_log, event, supervisor,
                   disk, watcher, call>>
Clean(m) ==
    /\ m \in managers
    /\ pc[m] = "loop"
    /\ clean_due(m)
    /\ cache' = [cache EXCEPT ![m] = clean_and_save(cache[m], now)]
    /\ last_clean' = [last_clean EXCEPT ![m] = now]
    /\ UNCHANGED <<managers, queue, pc, obj, threads, alerts, gym_team,
                   weather_cache, location, settings, geofences, alarms,
                   now, distributed, handled, last_log>>
    /\ disk' = [disk EXCEPT ![m] =
           persist(settings[m].cache_type,
                   snapshot(m, clean_and_save(cache[m], now)), @)]
    /\ UNCHANGED <<event, supervisor, watcher>>
    /\ UNCHANGED call

\* Time passes.
Tick ==
    /\ now < MaxTime
    /\ now' = now + 1
    /\ UNCHANGED <<managers, queue, pc, obj, threads, alerts, cache,
                   gym_team, weather_cache, location, settings, geofences,
                   alarms, last_clean, distributed, handled, last_log>>
    /\ UNCHANGED <<event, supervisor, disk, watcher>>
    /\ UNCHANGED call

\* ------------------------------------------------------------ stopping
\* "except Queue.Empty": get(block=True, timeout=5) found nothing to take.
\* (variant: the branch is entered whatever the queue holds)
queue_Empty_always(m) == TRUE
queue_Empty(m) == queue[m] = <<>>

\* "if self.__event.is_set(): break"
\* (variant: the flag is never seen)
is_set_never(m) == FALSE
is_set(m) == event[m]

\* What run leaves saved after the loop: "self.__cache.clean_and_save()".
\* (variant: run exits without the call)
saved_at_exit_nothing(m) == disk[m]
saved_at_exit(m) ==
    persist(settings[m].cache_type,
            snapshot(m, clean_and_save(cache[m], now)), disk[m])

\* The get of run times out with the stop flag set: the loop is left, the
\* cache is swept and saved and the process exits with 0.  With the flag
\* not set the iteration changes nothing.
Timeout(m) ==
    /\ m \in managers
    /\ pc[m] = "loop"
    /\ ~clean_due(m)
    /\ queue_Empty(m)
    /\ is_set(m)
    /\ cache' = [cache EXCEPT ![m] = clean_and_save(cache[m], now)]
    /\ disk' = [disk EXCEPT ![m] = saved_at_exit(m)]
    /\ pc' = [pc EXCEPT ![m] = "stopped"]
    /\ UNCHANGED <<managers, queue, obj, threads, alerts, gym_team,
                   weather_cache, location, settings, geofences, alarms, now,
                   last_clean, distributed, handled, last_log, event,
                   supervisor, watcher>>
    /\ UNCHANGED call

\* SIGINT or SIGTERM reaches start_pokealarm: exit_gracefully begins.
Signal ==
    /\ supervisor.pc = "serving"
    /\ supervisor' = [supervisor EXCEPT !.pc = "exiting"]
    /\ UNCHANGED <<managers, queue, pc, obj, threads, alerts, cache, gym_team,
                   weather_cache, location, settings, geofences, alarms, now,
                   last_clean, distributed, handled, last_log, event, disk,
                   watcher>>
    /\ UNCHANGED call

\* The first loop of exit_gracefully: managers[m_name].stop() sets the flag.
Stop(m) ==
    /\ supervisor.pc = "exiting"
    /\ m \in managers \ supervisor.stopped
    /\ event' = [event EXCEPT ![m] = TRUE]
    /\ supervisor' = [supervisor EXCEPT !.stopped = @ \cup {m},
                                        !.qsize[m] = Len(queue[m])]
    /\ UNCHANGED <<managers, queue, pc, obj, threads, alerts, cache, gym_team,
                   weather_cache, location, settings, geofences, alarms, now,
                   last_clean, distributed, handled, last_log, disk, watcher>>
    /\ UNCHANGED call

\* self.__process.is_alive()
is_alive(m) == pc[m] \in {"loop", "join"}

\* What self.__process.terminate() does to a live Manager.  It sends
\* SIGTERM; setup_in_process, the first call of run, makes self.stop the
\* SIGTERM handler of the Manager process, so the signal only sets the
\* stop flag ("handled"); a process that has not installed the handler
\* yet is ended by it ("killed").
terminate_outcomes == {"handled", "killed"}

\* The second loop of exit_gracefully, entered when the first is done:
\* managers[m_name].join() returns at once for a process that has ended,
\* and after its ten seconds calls terminate() on one that is alive.  The
\* join of the last Manager is followed by exit(0).
ProcessJoin(m) ==
    /\ supervisor.pc = "exiting"
    /\ supervisor.stopped = managers
    /\ m \in managers \ supervisor.joined
    /\ supervisor' = [supervisor EXCEPT
           !.joined = @ \cup {m},
           !.pc = IF supervisor.joined \cup {m} = managers
                  THEN "exited" ELSE @]
    /\ \E outcome \in terminate_outcomes :
         IF is_alive(m) /\ outcome = "killed"
         THEN /\ pc' = [pc EXCEPT ![m] = "killed"]
              /\ threads' = [threads EXCEPT ![m] = [a \in AlarmIds |-> "none"]]
              /\ event' = event
         ELSE /\ event' = [event EXCEPT ![m] = is_alive(m) \/ @]
              /\ UNCHANGED <<pc, threads>>
    /\ UNCHANGED <<managers, queue, obj, alerts, cache, gym_team,
                   weather_cache, location, settings, geofences, alarms, now,
                   last_clean, distributed, handled, last_log, disk, watcher>>
    /\ UNCHANGED call

\* ------------------------------------------------------------- start state
PokemonIv90 ==
    [PokemonDefaults EXCEPT !.min_iv = 90, !.needs_iv = TRUE,
                            !.ignore_missing = TRUE]
GymFrom1To2 == [GymDefaults EXCEPT !.from_team = {1}, !.to_team = {0, 2}]
NearFilter == [FilterDefaults EXCEPT !.max_dist = 0]
Fence0 == [name |-> "home", pts |-> {0}]
Fence1 == [name |-> "away", pts |-> {1}]

DefaultSettings ==
    [time_limit |-> 0, loc_service |-> FALSE, cache_type |-> "mem",
     pokemon |-> [enabled |-> TRUE, filters |-> (1 :> <<PokemonDefaults>>)],
     pokestop |-> [enabled |-> TRUE, filters |-> <<FilterDefaults>>],
     gym |-> [enabled |-> TRUE, ignore_neutral |-> FALSE,
              filters |-> <<GymDefaults>>, park_check |-> FALSE],
     egg |-> [enabled |-> TRUE, min_level |-> 0, max_level |-> 10,
              min_dist |-> 0, max_dist |-> InfDist, contains |-> {},
              park_check |-> FALSE],
     raid |-> [enabled |-> TRUE, filters |-> (1 :> <<PokemonDefaults>>),
               contains |-> {}, park_check |-> FALSE],
     weather |-> [enabled |-> TRUE, filters |-> <<FilterDefaults>>]]

\* The three watched file kinds of Manager.__watchercfg.
CfgTypes == {"Filters", "Alarms", "Geofences"}

\* __watchercfg after __init__: no time stamp recorded yet.  mtime and
\* content are the modification time of the file on disk and what loading
\* it would meet.
FirstCheck ==
    [t \in CfgTypes |->
        [tstamp |-> NoneV, mtime |-> 0, content |-> "good", log |-> "none"]]

\* start_pokealarm before a termination signal: no Manager stopped or joined.
\* qsize is the queue length Manager.stop logs when it is called.
Serving ==
    [pc |-> "serving", stopped |-> {}, joined |-> {},
     qsize |-> [m \in ManagerNames |-> 0]]

\* No direct call of a filter function is under way.
NoCall ==
    [fn |-> "none", filters |-> <<>>, pkmn |-> Blank, dist |-> Unkn,
     returned |-> FALSE, passed |-> FALSE, mention |-> "", tried |-> 0]

\* The state after parse_settings built and started the Managers named
\* mgrs, Manager m with settings sf[m], each with geofence list gfs, alarm
\* set al and location loc: empty queues and an empty memory cache.
\* InitPer adds that no filter function is being called directly, and
\* InitWith gives every Manager the same settings s.
InitManagers(mgrs, sf, gfs, al, loc) ==
    /\ managers = mgrs
    /\ queue = [m \in ManagerNames |-> <<>>]
    /\ pc = [m \in ManagerNames |-> IF m \in mgrs THEN "loop" ELSE "none"]
    /\ obj = [m \in ManagerNames |-> Blank]
    /\ threads = [m \in ManagerNames |-> [a \in AlarmIds |-> "none"]]
    /\ alerts = [m \in ManagerNames |-> [a \in AlarmIds |-> 0]]
    /\ cache = [m \in ManagerNames |->
                  [k \in DedupKinds |-> [i \in Keys |-> NoneV]]]
    /\ gym_team = [m \in ManagerNames |-> [i \in Keys |-> Q]]
    /\ weather_cache = [m \in ManagerNames |-> [i \in Keys |-> <<Q, Q>>]]
    /\ location = [m \in ManagerNames |-> loc]
    /\ settings = sf
    /\ geofences = [m \in ManagerNames |-> gfs]
    /\ alarms = [m \in ManagerNames |-> al]
    /\ now = 0
    /\ last_clean = [m \in ManagerNames |-> 0]
    /\ distributed = <<>>
    /\ handled = [m \in ManagerNames |-> <<>>]
    /\ last_log = [m \in ManagerNames |-> "none"]
    /\ event = [m \in ManagerNames |-> FALSE]
    /\ supervisor = Serving
    /\ disk = [m \in ManagerNames |-> EmptyCache]
    /\ watcher = [m \in ManagerNames |-> FirstCheck]

InitPer(mgrs, sf, gfs, al, loc) ==
    InitManagers(mgrs, sf, gfs, al, loc) /\ call = NoCall

InitWith(mgrs, s, gfs, al, loc) ==
    InitPer(mgrs, [m \in ManagerNames |-> s], gfs, al, loc)

\* ----------------------------------------------------------------- webhooks
ExpTimes == {1, 4}

WebhookPokemon ==
    \E t \in ExpTimes, g \in {NoneV, 1} :
        Webhook([RawBlank EXCEPT !.type = "pokemon", !.id = "k1", !.expire = t,
                    !.latitude = 0, !.pokemon_id = 1, !.ivsum = 45,
                    !.gender = g])

WebhookPokestop ==
    \E k \in Keys, t \in ExpTimes :
        Webhook([RawBlank EXCEPT !.type = "pokestop", !.id = k, !.expire = t,
                    !.latitude = 0])

WebhookRaid ==
    \E pk \in {NoneV, 1}, t \in ExpTimes, sl \in {2} :
        Webhook([RawBlank EXCEPT !.type = "raid", !.id = "k1", !.start = 1,
                    !.expire = t, !.latitude = 0, !.pokemon_id = pk,
                    !.slots_available = sl, !.level = 5])

\* gym_details payloads: team, the in-battle flag and the free slots, the
\* last two present or absent.
WebhookGym ==
    \E tm \in 0..MaxTeam, bs \in {<<NoneV, 2>>, <<1, 2>>, <<NoneV, NoneV>>} :
        Webhook([RawBlank EXCEPT !.type = "gym_details", !.id = "k1",
                    !.latitude = 0, !.team = tm, !.is_in_battle = bs[1],
                    !.slots_available = bs[2]])

\* weather payloads: gameplay weather, severity and the wind direction,
\* present or absent.
WebhookWeather ==
    \E gw \in {1, 2}, sev \in {0, 1}, wd \in {NoneV, 90} :
        Webhook([RawBlank EXCEPT !.type = "weather", !.id = "k1",
                    !.latitude = 0, !.gameplay_weather = gw,
                    !.severity = sev, !.wind_direction = wd])

\* location payloads: the text is a Lat,Lng pair, some other text, or the
\* message has no 'latitude' key.
WebhookLocation ==
    \E c \in {"latlng", "text", "missing"} :
        Webhook([RawBlank EXCEPT !.type = "location", !.latitude = 1,
                    !.coords = c])

\* A pokemon payload without gender: its handler raises in the enrichment.
WebhookPokemonNoGender ==
    Webhook([RawBlank EXCEPT !.type = "pokemon", !.id = "k2", !.expire = 4,
                !.latitude = 0, !.pokemon_id = 1])

\* A lured pokestop.
WebhookLuredPokestop ==
    \E k \in Keys :
        Webhook([RawBlank EXCEPT !.type = "pokestop", !.id = k, !.expire = 4,
                    !.latitude = 0])

\* A location payload whose text is a place name, not a Lat,Lng pair.
WebhookPlaceName ==
    Webhook([RawBlank EXCEPT !.type = "location", !.latitude = 1,
                !.coords = "text"])

\* A lured pokestop, always the same one.
WebhookSamePokestop ==
    Webhook([RawBlank EXCEPT !.type = "pokestop", !.id = "k1", !.expire = 4,
                !.latitude = 0])

\* ------------------------------------------------- configuration hot reload
\* What a watched file can hold when it is read: "good" loads, "notjson"
\* does not parse as JSON (a file still being written), "invalid" is JSON
\* of the wrong structure (a Filters file without the 'gyms' key, an Alarms
\* file that is not a list, a geofence file without points), "fatal" is a
\* Filters file for which a loader of Filters.py calls sys.exit(1) (an
\* unknown filter name, size, gender, move or team).  The watched files
\* exist: os.stat does not raise.
FileContents(t) ==
    IF t = "Filters" THEN {"good", "notjson", "invalid", "fatal"}
    ELSE {"good", "notjson", "invalid"}

\* What the good files hold.
NewFilters == [DefaultSettings EXCEPT !.gym.ignore_neutral = TRUE]
NewAlarms == {"a2"}
NewGeofences == <<Fence1>>

\* "Test if file is proper JSON": json.load in a try.
\* (variant: the test lets every file through)
json_loads_anything(content) == TRUE
json_loads(content) == content # "notjson"

\* The six assignments "self.__<kind>_settings = {}".
emptied(s) ==
    [k \in DOMAIN s |-> IF k \in Sections THEN EmptyDict ELSE s[k]]

\* The first n section assignments of load_filter_file.
loaded_upto(s, new, n) ==
    [k \in DOMAIN s |->
        IF \E i \in 1..n : SectionOrder[i] = k THEN new[k] ELSE s[k]]

\* load_filter_file(file_path, startup): ret is the value returned, exit
\* is TRUE when SystemExit leaves the call.  Every Exception is caught and
\* ends in sys.exit(1) at startup and in "return False" otherwise; the
\* SystemExit of a loader is no Exception and is not caught.  The
\* "invalid" file lacks 'gyms': the pokemon and pokestop sections are
\* assigned before require_and_remove_key raises.
load_filter_file(s, content, startup) ==
    CASE content = "good" ->
            [ret |-> TRUE, exit |-> FALSE,
             settings |-> loaded_upto(s, NewFilters, Len(SectionOrder))]
      [] content = "fatal" -> [ret |-> FALSE, exit |-> TRUE, settings |-> s]
      [] content = "invalid" ->
            [ret |-> FALSE, exit |-> startup,
             settings |-> loaded_upto(s, NewFilters, 2)]
      [] OTHER -> [ret |-> FALSE, exit |-> startup, settings |-> s]

\* load_alarms_file(file_path, max_attempts, startup): a file that is not
\* a list, and every Exception, end in sys.exit(1) when startup is true.
load_alarms_file(al, content, startup) ==
    IF content = "good"
    THEN [ret |-> TRUE, exit |-> FALSE, alarms |-> NewAlarms]
    ELSE [ret |-> FALSE, exit |-> startup, alarms |-> al]

\* The startup argument of the load_alarms_file call of
\* check_updated_config_files: the call passes none, the default is True.
reload_alarms_startup == TRUE

\* One pass of the loop of check_updated_config_files, for file kind t.
\* st holds the configuration, the watcher entries and whether SystemExit
\* has left the method; log is the place the pass ended at.
\* (variant: the file is read on the first check as well)
check_cfg_reading_on_first_check(st, t) ==
    LET w == st.watcher[t]
        at(x, l) == [x EXCEPT !.watcher[t].log = l]
        stamped(x, l) ==
            [x EXCEPT !.watcher[t].log = l, !.watcher[t].tstamp = w.mtime]
    IN
    IF st.exit THEN st
    ELSE IF w.content = "none" THEN st
    ELSE IF w.mtime = w.tstamp THEN at(st, "same")
    ELSE IF ~json_loads(w.content) THEN at(st, "retry")
    ELSE CASE t = "Filters" ->
            LET r == load_filter_file(emptied(st.settings), w.content, FALSE)
                x == [st EXCEPT !.settings = r.settings, !.exit = r.exit]
            IN  IF r.exit THEN at(x, "exit")
                ELSE IF ~r.ret THEN at(x, "failed")
                ELSE stamped(x, "reloaded")
           [] t = "Alarms" ->
            LET r == load_alarms_file({}, w.content, reload_alarms_startup)
                x == [st EXCEPT !.alarms = r.alarms, !.exit = r.exit]
            IN  IF r.exit THEN at(x, "exit")
                ELSE IF ~r.ret THEN at(x, "failed")
                ELSE stamped(x, "reloaded")
           [] OTHER ->
            IF w.content = "good"
            THEN stamped([st EXCEPT !.geofences = NewGeofences], "reloaded")
            ELSE at(st, "failed")
check_cfg(st, t) ==
    LET w == st.watcher[t]
        at(x, l) == [x EXCEPT !.watcher[t].log = l]
        stamped(x, l) ==
            [x EXCEPT !.watcher[t].log = l, !.watcher[t].tstamp = w.mtime]
    IN
    IF st.exit THEN st
    ELSE IF w.content = "none" THEN st
    ELSE IF w.mtime = w.tstamp THEN at(st, "same")
    ELSE IF w.tstamp = NoneV THEN stamped(st, "first")
    ELSE IF ~json_loads(w.content) THEN at(st, "retry")
    ELSE CASE t = "Filters" ->
            LET r == load_filter_file(emptied(st.settings), w.content, FALSE)
                x == [st EXCEPT !.settings = r.settings, !.exit = r.exit]
            IN  IF r.exit THEN at(x, "exit")
                ELSE IF ~r.ret THEN at(x, "failed")
                ELSE stamped(x, "reloaded")
           [] t = "Alarms" ->
            LET r == load_alarms_file({}, w.content, reload_alarms_startup)
                x == [st EXCEPT !.alarms = r.alarms, !.exit = r.exit]
            IN  IF r.exit THEN at(x, "exit")
                ELSE IF ~r.ret THEN at(x, "failed")
                ELSE stamped(x, "reloaded")
           [] OTHER ->
            IF w.content = "good"
            THEN stamped([st EXCEPT !.geofences = NewGeofences], "reloaded")
            ELSE at(st, "failed")

\* The orders "for cfg_type in self.watchercfg" can go through the keys.
CfgOrders ==
    {o \in [1..3 -> CfgTypes] : \A t \in CfgTypes : \E i \in 1..3 : o[i] = t}

check_updated_config_files(m, order) ==
    LET st0 == [settings |-> settings[m], alarms |-> alarms[m],
                geofences |-> geofences[m], watcher |-> watcher[m],
                exit |-> FALSE]
    IN  check_cfg(check_cfg(check_cfg(st0, order[1]), order[2]), order[3])

\* "Check if config files have changed and re-read if necessary": the call
\* of run, outside of any try; a SystemExit ends the Manager.
Poll(m) ==
    /\ m \in managers
    /\ pc[m] = "loop"
    /\ \E order \in CfgOrders :
         LET st == check_updated_config_files(m, order)
         IN  /\ settings' = [settings EXCEPT ![m] = st.settings]
             /\ alarms' = [alarms EXCEPT ![m] = st.alarms]
             /\ geofences' = [geofences EXCEPT ![m] = st.geofences]
             /\ watcher' = [watcher EXCEPT ![m] = st.watcher]
             /\ pc' = [pc EXCEPT ![m] = IF st.exit THEN "crashed" ELSE "loop"]
    /\ UNCHANGED <<managers, queue, obj, threads, alerts, cache, gym_team,
                   weather_cache, location, now, last_clean, distributed,
                   handled, last_log, event, supervisor, disk>>
    /\ UNCHANGED call

\* The number of times the watched files of Manager m were written.
edits(m) ==
    watcher[m]["Filters"].mtime + watcher[m]["Alarms"].mtime
        + watcher[m]["Geofences"].mtime

\* The operator of the installation writes watched file t of Manager m.
EditFile(m, t) ==
    /\ m \in managers
    /\ edits(m) < MaxEdits
    /\ \E content \in FileContents(t) :
         watcher' = [watcher EXCEPT ![m][t].mtime = @ + 1,
                                    ![m][t].content = content]
    /\ UNCHANGED <<managers, queue, pc, obj, threads, alerts, cache, gym_team,
                   weather_cache, location, settings, geofences, alarms, now,
                   last_clean, distributed, handled, last_log, event,
                   supervisor, disk>>
    /\ UNCHANGED call

InitReload == InitWith({"m1"}, DefaultSettings, <<Fence0>>, {"a1"}, 0)

NextReload ==
    \/ WebhookLuredPokestop
    \/ \E m \in ManagerNames : Run(m)
    \/ \E m \in ManagerNames, a \in AlarmIds : SinkRun(m, a)
    \/ \E m \in ManagerNames : Join(m)
    \/ \E m \in ManagerNames : Poll(m)
    \/ \E m \in ManagerNames, t \in CfgTypes : EditFile(m, t)

SpecReload == InitReload /\ [][NextReload]_vars

\* ------------------------------------------------- dedup of timed events
InitDedup ==
    \E tl \in {0, 2}, gfs \in {<<>>, <<Fence0>>} :
        InitWith({"m1"}, [DefaultSettings EXCEPT !.time_limit = tl], gfs,
                 AlarmIds, 0)

NextDedup ==
    \/ WebhookPokemon
    \/ WebhookPokestop
    \/ WebhookRaid
    \/ \E m \in ManagerNames : Run(m)
    \/ \E m \in ManagerNames, a \in AlarmIds : SinkRun(m, a)
    \/ \E m \in ManagerNames : Join(m)
    \/ \E m \in ManagerNames : Clean(m)
    \/ Tick

SpecDedup == InitDedup /\ [][NextDedup]_vars

\* ------------------------------------------------------ gym team changes
InitGym ==
    \E en \in BOOLEAN, ign \in BOOLEAN, f \in {GymDefaults, GymFrom1To2},
       gf \in {Fence0, Fence1} :
        InitWith({"m1"},
                 [DefaultSettings EXCEPT !.gym.enabled = en,
                     !.gym.ignore_neutral = ign, !.gym.filters = <<f>>],
                 <<gf>>, AlarmIds, 0)

NextGym ==
    \/ WebhookGym
    \/ \E m \in ManagerNames : Run(m)
    \/ \E m \in ManagerNames, a \in AlarmIds : SinkRun(m, a)
    \/ \E m \in ManagerNames : Join(m)
    \/ \E m \in ManagerNames : Clean(m)
    \/ Tick

SpecGym == InitGym /\ [][NextGym]_vars

\* ---------------------------------------------------------- weather changes
InitWeather ==
    \E en \in BOOLEAN, f \in {FilterDefaults, NearFilter},
       gf \in {Fence0, Fence1} :
        InitWith({"m1"},
                 [DefaultSettings EXCEPT !.weather.enabled = en,
                     !.weather.filters = <<f>>],
                 <<gf>>, AlarmIds, 1)

NextWeather ==
    \/ WebhookWeather
    \/ \E m \in ManagerNames : Run(m)
    \/ \E m \in ManagerNames, a \in AlarmIds : SinkRun(m, a)
    \/ \E m \in ManagerNames : Join(m)
    \/ \E m \in ManagerNames : Clean(m)
    \/ Tick

SpecWeather == InitWeather /\ [][NextWeather]_vars

\* ------------------------------------------- distribution and the run loop
InitLoop ==
    \E ls \in BOOLEAN :
        InitWith(ManagerNames, [DefaultSettings EXCEPT !.loc_service = ls],
                 <<>>, {"a1"}, 0)

NextLoop ==
    \/ WebhookLocation
    \/ WebhookPokemonNoGender
    \/ WebhookLuredPokestop
    \/ \E m \in ManagerNames : Run(m)
    \/ \E m \in ManagerNames, a \in AlarmIds : SinkRun(m, a)
    \/ \E m \in ManagerNames : Join(m)
    \/ \E m \in ManagerNames : Clean(m)
    \/ Tick

SpecLoop == InitLoop /\ [][NextLoop]_vars

\* ------------------------------------------------- isolation of Managers
\* Manager m1 has a location service (a location object can end it),
\* Manager m2 has none.  No fairness is assumed of m1: its sink task may
\* never return.  m2 and its sink tasks keep running.
InitIsolation ==
    InitPer(ManagerNames,
            [m \in ManagerNames |->
                [DefaultSettings EXCEPT !.loc_service = (m = "m1")]],
            <<>>, {"a1"}, 0)

NextIsolation ==
    \/ WebhookLocation
    \/ WebhookLuredPokestop
    \/ \E m \in ManagerNames : Run(m)
    \/ \E m \in ManagerNames, a \in AlarmIds : SinkRun(m, a)
    \/ \E m \in ManagerNames : Join(m)

SpecIsolation ==
    /\ InitIsolation
    /\ [][NextIsolation]_vars
    /\ WF_vars(Run("m2"))
    /\ WF_vars(SinkRun("m2", "a1"))
    /\ WF_vars(Join("m2"))

\* ------------------------------------------------------------- restart
\* start_pokealarm is started again after exit_gracefully has ended it and
\* every Manager process has ended: parse_settings builds the Managers
\* with the settings they had, each cache_factory call loads what its
\* cache type has saved, and the Managers are started.
Restart ==
    /\ supervisor.pc = "exited"
    /\ \A m \in managers : ~is_alive(m)
    /\ supervisor' = Serving
    /\ queue' = [m \in ManagerNames |-> <<>>]
    /\ pc' = [m \in ManagerNames |-> IF m \in managers THEN "loop" ELSE pc[m]]
    /\ threads' = [m \in ManagerNames |-> [a \in AlarmIds |-> "none"]]
    /\ event' = [m \in ManagerNames |-> FALSE]
    /\ cache' = [m \in ManagerNames |->
                   cache_factory(settings[m].cache_type, disk[m]).cache]
    /\ gym_team' = [m \in ManagerNames |->
                   cache_factory(settings[m].cache_type, disk[m]).gym_team]
    /\ weather_cache' = [m \in ManagerNames |->
           cache_factory(settings[m].cache_type, disk[m]).weather_cache]
    /\ last_clean' = [m \in ManagerNames |-> now]
    /\ watcher' = [m \in ManagerNames |->
           [t \in CfgTypes |-> [watcher[m][t] EXCEPT !.tstamp = NoneV]]]
    /\ UNCHANGED <<managers, obj, alerts, location, settings, geofences,
                   alarms, now, distributed, handled, last_log, disk>>
    /\ UNCHANGED call

\* One Manager with the memory or the file cache; pokestops with early
\* and late lure expirations come in while time passes.
InitRestart ==
    \E ct \in {"mem", "file"} :
        InitWith({"m1"}, [DefaultSettings EXCEPT !.cache_type = ct], <<>>,
                 {"a1"}, 0)

NextRestart ==
    \/ WebhookPokestop
    \/ \E m \in ManagerNames : Run(m)
    \/ \E m \in ManagerNames, a \in AlarmIds : SinkRun(m, a)
    \/ \E m \in ManagerNames : Join(m)
    \/ \E m \in ManagerNames : Clean(m)
    \/ Tick
    \/ \E m \in ManagerNames : Timeout(m)
    \/ Signal
    \/ \E m \in ManagerNames : Stop(m)
    \/ \E m \in ManagerNames : ProcessJoin(m)
    \/ Restart

SpecRestart == InitRestart /\ [][NextRestart]_vars

\* ---------------------------------------------------------- graceful exit
\* Two Managers, m1 with a location service.
InitStop ==
    InitPer(ManagerNames,
            [m \in ManagerNames |->
                [DefaultSettings EXCEPT !.loc_service = (m = "m1")]],
            <<>>, {"a1"}, 0)

NextStop ==
    \/ WebhookPlaceName
    \/ WebhookSamePokestop
    \/ \E m \in ManagerNames : Run(m)
    \/ \E m \in ManagerNames, a \in AlarmIds : SinkRun(m, a)
    \/ \E m \in ManagerNames : Join(m)
    \/ \E m \in ManagerNames : Timeout(m)
    \/ Signal
    \/ \E m \in ManagerNames : Stop(m)
    \/ \E m \in ManagerNames : ProcessJoin(m)

SpecStop == InitStop /\ [][NextStop]_vars

\* One Manager, with a location service, under fairness: the Manager keeps
\* going round its loop and every sink task returns.  Nothing is assumed
\* of when the termination signal comes or how fast exit_gracefully goes.
InitStopOne ==
    InitWith({"m1"}, [DefaultSettings EXCEPT !.loc_service = TRUE], <<>>,
             {"a1"}, 0)

SpecStopOne ==
    /\ InitStopOne
    /\ [][NextStop]_vars
    /\ \A m \in ManagerNames :
          /\ WF_vars(Run(m))
          /\ WF_vars(Join(m))
          /\ WF_vars(Timeout(m))
          /\ \A a \in AlarmIds : WF_vars(SinkRun(m, a))

\* ----------------------------------------------- check_pokemon_filter alone
\* The checks of the loop body, as a set.
Checks == {CheckOrder[i] : i \in 1..Len(CheckOrder)}

\* The number of checks that a drawn filter and event may differ in from
\* the default filter and the event every filter accepts.
MaxTouched == 2

\* PokemonFilter.__init__: needs_<field> is set when the bound of the field
\* differs from the one of PokemonFilter.get_defaults().
with_needs(f) ==
    [f EXCEPT
        !.needs_cp = f.min_cp # PokemonDefaults.min_cp
                        \/ f.max_cp # PokemonDefaults.max_cp,
        !.needs_level = f.min_level # PokemonDefaults.min_level
                        \/ f.max_level # PokemonDefaults.max_level,
        !.needs_iv = f.min_iv # PokemonDefaults.min_iv
                        \/ f.max_iv # PokemonDefaults.max_iv,
        !.needs_atk = f.min_atk # PokemonDefaults.min_atk
                        \/ f.max_atk # PokemonDefaults.max_atk,
        !.needs_def = f.min_def # PokemonDefaults.min_def
                        \/ f.max_def # PokemonDefaults.max_def,
        !.needs_sta = f.min_sta # PokemonDefaults.min_sta
                        \/ f.max_sta # PokemonDefaults.max_sta,
        !.needs_rating_attack =
            \/ f.min_rating_attack # PokemonDefaults.min_rating_attack
            \/ f.max_rating_attack # PokemonDefaults.max_rating_attack,
        !.needs_rating_defense =
            \/ f.min_rating_defense # PokemonDefaults.min_rating_defense
            \/ f.max_rating_defense # PokemonDefaults.max_rating_defense]

\* The filter PokemonFilter.__init__ builds from settings that constrain
\* the checks of C and set ignore_missing to im, everything else default.
FilterOf(C, im) ==
    with_needs(
      [PokemonDefaults EXCEPT
        !.ignore_missing = im,
        !.max_dist = IF "dist" \in C THEN 0 ELSE @,
        !.max_cp = IF "cp" \in C THEN 1 ELSE @,
        !.min_level = IF "level" \in C THEN 30 ELSE @,
        !.min_iv = IF "iv" \in C THEN 90 ELSE @,
        !.min_atk = IF "atk" \in C THEN 15 ELSE @,
        !.min_def = IF "def" \in C THEN 15 ELSE @,
        !.max_sta = IF "sta" \in C THEN 1 ELSE @,
        !.req_quick_move = IF "quick_move" \in C THEN <<{1}>> ELSE @,
        !.req_charge_move = IF "charge_move" \in C THEN <<{3}>> ELSE @,
        !.req_moveset = IF "moveset" \in C THEN <<{{1, 3}}>> ELSE @,
        !.sizes = IF "size" \in C THEN <<{"big"}>> ELSE @,
        !.genders = IF "gender" \in C THEN <<{"male"}>> ELSE @,
        !.forms = IF "form" \in C THEN <<{1}>> ELSE @,
        !.min_rating_attack = IF "rating_attack" \in C THEN GradeB ELSE @,
        !.max_rating_defense = IF "rating_defense" \in C THEN GradeB ELSE @])

\* The value of a field: missing when its check is in M, the value a
\* constrained filter rejects when in B, the value every filter accepts
\* otherwise.
pick(c, B, M, good, bad, missing) ==
    IF c \in M THEN missing ELSE IF c \in B THEN bad ELSE good

\* A normalized pokemon event, and the distance of it.
EventOf(B, M) ==
    [Blank EXCEPT
        !.type = "pokemon", !.pkmn_id = 1, !.exp = MaxTime,
        !.cp = pick("cp", B, M, 1, 2, Q),
        !.level = pick("level", B, M, 30, 1, Q),
        !.iv = pick("iv", B, M, 100, 0, Q),
        !.atk = pick("atk", B, M, 15, 0, Q),
        !.def = pick("def", B, M, 15, 0, Q),
        !.sta = pick("sta", B, M, 1, 2, Q),
        !.quick_id = pick("quick_move", B, M, 1, 2, Q),
        !.charge_id = pick("charge_move", B, M, 3, 2, Q),
        !.size = pick("size", B, M, "big", "tiny", "unknown"),
        !.gender = pick("gender", B, M, "male", "?", "unknown"),
        !.form_id = pick("form", B, M, 1, 2, Q),
        !.rating_attack = pick("rating_attack", B, M, GradeA, GradeC, Dash),
        !.rating_defense = pick("rating_defense", B, M, GradeB, GradeA, Q)]
DistOf(B, M) == pick("dist", B, M, 0, 1, Unkn)

\* A caller hands check_pokemon_filter one filter, an event and a distance.
InitFilter ==
    /\ InitManagers({"m1"}, [m \in ManagerNames |-> DefaultSettings],
                    <<>>, {"a1"}, NoneV)
    /\ \E T \in {t \in SUBSET Checks : Cardinality(t) <= MaxTouched} :
       \E C \in SUBSET T, B \in SUBSET T, im \in BOOLEAN :
       \E M \in SUBSET (T \ B) :
          call = [fn |-> "check_pokemon_filter",
                  filters |-> <<FilterOf(C, im)>>, pkmn |-> EventOf(B, M),
                  dist |-> DistOf(B, M), returned |-> FALSE,
                  passed |-> FALSE, mention |-> "", tried |-> 0]

\* passed, mention = self.check_pokemon_filter(filters, pkmn, dist)
CallCheckPokemonFilter ==
    /\ call.fn = "check_pokemon_filter"
    /\ ~call.returned
    /\ LET rtn == filter_loop(call.filters, call.pkmn, call.dist, 1)
       IN  call' = [call EXCEPT
                      !.returned = TRUE,
                      !.passed = check_pokemon_filter(call.filters, call.pkmn,
                                                      call.dist),
                      !.mention = rtn.mention,
                      !.tried = rtn.tried]
    /\ UNCHANGED <<managers, queue, pc, obj, threads, alerts, cache,
                   gym_team, weather_cache, location, settings, geofences,
                   alarms, now, last_clean, distributed, handled, last_log,
                   event, supervisor, disk, watcher>>

NextFilter == CallCheckPokemonFilter

SpecFilter == InitFilter /\ [][NextFilter]_vars

\* ------------------------------------------- a list of alternative filters
\* The longest filter list drawn.
MaxFilters == 2

\* The filters a list is made of: at most one of CP and IV constrained,
\* ignore_missing either way, and one of two mention texts.
ListFilters ==
    {[FilterOf(C, im) EXCEPT !.mention = t] :
        C \in {{}, {"cp"}, {"iv"}}, im \in BOOLEAN, t \in {"@a", "@b"}}
FilterLists == UNION {[1..n -> ListFilters] : n \in 0..MaxFilters}

\* A caller hands check_pokemon_filter a list of filters and an event.
InitFilterList ==
    /\ InitManagers({"m1"}, [m \in ManagerNames |-> DefaultSettings],
                    <<>>, {"a1"}, NoneV)
    /\ \E fs \in FilterLists, B \in SUBSET {"cp", "iv"} :
       \E M \in SUBSET ({"cp", "iv"} \ B) :
          call = [fn |-> "check_pokemon_filter", filters |-> fs,
                  pkmn |-> EventOf(B, M), dist |-> DistOf(B, M),
                  returned |-> FALSE, passed |-> FALSE, mention |-> "",
                  tried |-> 0]

SpecFilterList == InitFilterList /\ [][NextFilter]_vars

\* ------------------------------------------------- building a pokemon filter
\* The ranges of a pokemon filter: the keys of the two bounds of each.
Ranges ==
    {"dist", "cp", "level", "iv", "atk", "def", "sta", "rating_attack",
     "rating_defense"}
RangeKeys == {"min_" \o r : r \in Ranges} \cup {"max_" \o r : r \in Ranges}
IsRating(r) == r \in {"rating_attack", "rating_defense"}

\* settings.pop(key, None) or default[key]: the value of the settings, the
\* default when the settings have no such key or give a value that is false
\* in a condition (None, 0).
pop_or_default(sett, key, default) ==
    IF sett[key] \in {NoneV, 0} THEN default[key] ELSE sett[key]

\* Filter.__init__ and PokemonFilter.__init__: every bound is taken from the
\* settings or the default, the needs_<field> flags are computed, and the
\* filter is returned; reject_leftover_parameters finds no key left.  The
\* result says whether the construction was refused.
PokemonFilter(sett, default) ==
    LET f == [k \in DOMAIN default |->
                IF k \in RangeKeys THEN pop_or_default(sett, k, default)
                ELSE default[k]]
    IN  [filt |-> with_needs(f), rejected |-> FALSE]

\* The values a filter definition gives a bound: none, or a number (a grade
\* for a rating).
BoundValues(r) ==
    IF IsRating(r) THEN {NoneV, GradeA, GradeB, GradeC} ELSE {NoneV, 0, 1, 2}

\* A filter definition that gives the bounds of the ranges of T: lo[r] and
\* hi[r] for range r, nothing for the others.
SettingsOf(T, lo, hi) ==
    [k \in RangeKeys |->
        IF \E r \in T : k = "min_" \o r THEN lo[CHOOSE r \in T : k = "min_" \o r]
        ELSE IF \E r \in T : k = "max_" \o r
        THEN hi[CHOOSE r \in T : k = "max_" \o r]
        ELSE NoneV]

\* A section loader hands PokemonFilter a definition and the default.
InitConstruct ==
    /\ InitManagers({"m1"}, [m \in ManagerNames |-> DefaultSettings],
                    <<>>, {"a1"}, NoneV)
    /\ \E T \in {t \in SUBSET Ranges : Cardinality(t) <= MaxTouched} :
       \E lo \in [T -> UNION {BoundValues(r) : r \in T}],
          hi \in [T -> UNION {BoundValues(r) : r \in T}] :
          /\ \A r \in T : lo[r] \in BoundValues(r) /\ hi[r] \in BoundValues(r)
          /\ call = [fn |-> "PokemonFilter", settings |-> SettingsOf(T, lo, hi),
                     default |-> PokemonDefaults, returned |-> FALSE,
                     filt |-> PokemonDefaults, rejected |-> FALSE]

\* f = PokemonFilter(settings, default, location)
CallPokemonFilter ==
    /\ call.fn = "PokemonFilter"
    /\ ~call.returned
    /\ LET rtn == PokemonFilter(call.settings, call.default)
       IN  call' = [call EXCEPT !.returned = TRUE, !.filt = rtn.filt,
                                !.rejected = rtn.rejected]
    /\ UNCHANGED <<managers, queue, pc, obj, threads, alerts, cache,
                   gym_team, weather_cache, location, settings, geofences,
                   alarms, now, last_clean, distributed, handled, last_log,
                   event, supervisor, disk, watcher>>

NextConstruct == CallPokemonFilter

SpecConstruct == InitConstruct /\ [][NextConstruct]_vars

\* ----------------------------------------------------- building a gym filter
\* GymFilter.__init__: a team list the definition gives is used, and one it
\* does not give is copied from default['to_team'], for to_team and for
\* from_team alike.  A definition writes a list it does not give as None.
GymFilter(sett, default) ==
    [min_dist |-> default.min_dist, max_dist |-> default.max_dist,
     to_team |-> IF sett.to_team # None THEN sett.to_team[1]
                 ELSE default.to_team,
     from_team |-> IF sett.from_team # None THEN sett.from_team[1]
                   ELSE default.to_team]

\* The team lists a definition may give.
TeamLists == {None, <<{1}>>, <<{2}>>, <<{1, 2}>>}
GymDefinitions == [from_team : TeamLists, to_team : TeamLists]

\* load_gym_section is handed a 'default' definition and one filter
\* definition; a gym event then changes a gym from one team to another.
InitGymFilter ==
    /\ InitManagers({"m1"}, [m \in ManagerNames |-> DefaultSettings],
                    <<>>, {"a1"}, NoneV)
    /\ \E d \in GymDefinitions, f \in GymDefinitions :
       \E old \in 0..MaxTeam, new \in 0..MaxTeam :
          call = [fn |-> "GymFilter", default |-> d, filter |-> f,
                  from_team_id |-> old, to_team_id |-> new,
                  returned |-> FALSE, filt |-> GymDefaults, passed |-> FALSE]

\* load_gym_section builds the default filter from the system defaults and
\* the filter from the default filter; process_gym_info checks the change.
CallGymFilter ==
    /\ call.fn = "GymFilter"
    /\ ~call.returned
    /\ LET default_filt == GymFilter(call.default, GymDefaults)
           filt == GymFilter(call.filter, default_filt)
       IN  call' = [call EXCEPT
                      !.returned = TRUE,
                      !.filt = filt,
                      !.passed = check_gym_filters(<<filt>>, Unkn,
                                     call.from_team_id, call.to_team_id)]
    /\ UNCHANGED <<managers, queue, pc, obj, threads, alerts, cache,
                   gym_team, weather_cache, location, settings, geofences,
                   alarms, now, last_clean, distributed, handled, last_log,
                   event, supervisor, disk, watcher>>

NextGymFilter == CallGymFilter

SpecGymFilter == InitGymFilter /\ [][NextGymFilter]_vars

\* ------------------------------------------------------ create_multi_filter
\* The names of the 'filters' and 'filter_sets' sections of a Filters file;
\* "nx" is a name no section defines.
FilterNames == {"n1", "no"}
SetNames == {"s1"}
AnyNames == FilterNames \cup SetNames \cup {"nx"}

\* Three filter definitions: {}, {"max_dist": 1} and {"max_dist": 2}.
EmptyDefinition == SettingsOf({}, <<>>, <<>>)
MaxDist(d) == SettingsOf({"dist"}, [r \in {"dist"} |-> NoneV], [r \in {"dist"} |-> d])
Definitions == {EmptyDefinition, MaxDist(1), MaxDist(2)}

\* The dict objects load_filters keeps: one per named filter, and "l1", a
\* literal filter written inside a filter set.  named_filters maps a name to
\* its object; a filter set is a list of objects, the named ones being the
\* very objects of named_filters.
ObjIds == FilterNames \cup {"l1"}
SetBodies == {<<"n1">>, <<"n1", "l1">>, <<"l1", "no", "n1">>}

\* Utils.parse_boolean of a filter field: the JSON booleans and the strings
\* 't', 'true', 'y', 'yes', 'f', 'false', 'n', 'no' are booleans, every
\* other value gives None.
parse_boolean(sett) ==
    CASE sett.shape = "bool" -> IF sett.value THEN "True" ELSE "False"
      [] sett.shape = "name" /\ sett.name \in {"t", "true", "y", "yes"} -> "True"
      [] sett.shape = "name" /\ sett.name \in {"f", "false", "n", "no"} -> "False"
      [] OTHER -> "None"

\* FilterType(settings, default, location) of class cls, as a filter.
FilterType(cls, sett, default) ==
    IF cls = "PokemonFilter" THEN PokemonFilter(sett, default).filt
    ELSE [k \in DOMAIN default |-> pop_or_default(sett, k, default)]

\* The dict a constructor is handed and pops its keys from: ref names the
\* stored object, or is "fresh" for a dict no one else holds.
\* named_filters[name].copy() and copy.deepcopy(filter_sets[name]) hand
\* fresh dicts with the content of the stored ones.
\* (variant: the stored dict itself is handed on)
dict_no_copy(heap, id) == [ref |-> id, def |-> heap[id]]
dict_copy(heap, id) == [ref |-> "fresh", def |-> heap[id]]
deepcopy(heap, body) == [i \in DOMAIN body |-> dict_copy(heap, body[i])]

\* The pops of a constructor empty the dict it was handed.
pops(heap, ref) ==
    IF ref = "fresh" THEN heap ELSE [heap EXCEPT ![ref] = EmptyDefinition]

\* rtn.append(FilterType(...)) for the dicts hs[i], hs[i+1], ... in turn.
RECURSIVE build_filters(_, _, _, _, _, _)
build_filters(cls, hs, default, heap, i, acc) ==
    IF i > Len(hs) THEN [kind |-> "list", filters |-> acc, heap |-> heap]
    ELSE LET h == hs[i]
             d == IF h.ref = "fresh" THEN h.def ELSE heap[h.ref]
         IN  build_filters(cls, hs, default, pops(heap, h.ref), i + 1,
                           Append(acc, FilterType(cls, d, default)))

\* One element of a list of filters: a literal dict, the name of a named
\* filter, or anything else.
known_element(e) ==
    e.shape = "dict" \/ (e.shape = "name" /\ e.name \in FilterNames)
handed_element(heap, e) ==
    IF e.shape = "dict" THEN [ref |-> "fresh", def |-> e.def]
    ELSE dict_copy(heap, e.name)

\* create_multi_filter(location, FilterType, settings, default): kind is
\* "list" with the filters returned, "None" for the None returned for
\* false, "exit" for sys.exit(1); heap is the stored dicts afterwards.
create_multi_filter(cls, sett, default, heap, sets) ==
    LET bool == parse_boolean(sett)
        exit == [kind |-> "exit", filters |-> <<>>, heap |-> heap]
    IN  IF bool = "True"
        THEN build_filters(cls, <<[ref |-> "fresh", def |-> EmptyDefinition]>>,
                           default, heap, 1, <<>>)
        ELSE IF bool = "False"
        THEN [kind |-> "None", filters |-> <<>>, heap |-> heap]
        ELSE IF sett.shape = "dict"
        THEN build_filters(cls, <<[ref |-> "fresh", def |-> sett.def]>>,
                           default, heap, 1, <<>>)
        ELSE IF sett.shape = "list"
        THEN IF \A i \in DOMAIN sett.elems : known_element(sett.elems[i])
             THEN build_filters(cls,
                      [i \in DOMAIN sett.elems |->
                          handed_element(heap, sett.elems[i])],
                      default, heap, 1, <<>>)
             ELSE exit
        ELSE IF sett.shape = "name" /\ sett.name \in SetNames
        THEN build_filters(cls, deepcopy(heap, sets[sett.name]), default,
                           heap, 1, <<>>)
        ELSE IF sett.shape = "name" /\ sett.name \in FilterNames
        THEN build_filters(cls, <<dict_copy(heap, sett.name)>>, default,
                           heap, 1, <<>>)
        ELSE exit

\* What the caller does with the value returned: load_pokemon_filters
\* leaves the species without filters when it is None, and
\* load_pokestop_section takes len() of it, which raises for None.
section_filters(section, rtn) ==
    CASE rtn.kind = "list" -> [why |-> "loaded", filters |-> rtn.filters]
      [] rtn.kind = "exit" -> [why |-> "exit", filters |-> <<>>]
      [] rtn.kind = "None" /\ section = "pokemon" ->
            [why |-> "loaded", filters |-> <<>>]
      [] rtn.kind = "None" /\ section = "pokestops" ->
            [why |-> "raise", filters |-> <<>>]

\* The filter fields a section may carry, the class of the filters of a
\* section and the defaults they inherit.
FilterFields ==
    {[shape |-> "bool", value |-> b] : b \in BOOLEAN}
        \cup {[shape |-> "dict", def |-> MaxDist(1)]}
        \cup {[shape |-> "list", elems |-> es] :
                es \in {<<>>, <<[shape |-> "name", name |-> "n1"],
                               [shape |-> "dict", def |-> MaxDist(2)],
                               [shape |-> "name", name |-> "no"]>>,
                        <<[shape |-> "name", name |-> "s1"]>>,
                        <<[shape |-> "other"]>>}}
        \cup {[shape |-> "name", name |-> n] : n \in AnyNames}
        \cup {[shape |-> "other"]}
SectionClass(section) ==
    IF section = "pokemon" THEN "PokemonFilter" ELSE "PokestopFilter"
SectionDefaults(section) ==
    IF section = "pokemon"
    THEN {PokemonDefaults, [PokemonDefaults EXCEPT !.max_dist = 3]}
    ELSE {FilterDefaults}

\* The number of filter fields resolved after load_filters.
MaxResolves == 2

\* load_filters has stored the named filters and one filter set.
InitMulti ==
    /\ InitManagers({"m1"}, [m \in ManagerNames |-> DefaultSettings],
                    <<>>, {"a1"}, NoneV)
    /\ \E body \in SetBodies, d \in Definitions \ {EmptyDefinition} :
         LET heap == [id \in ObjIds |->
                        IF id = "n1" THEN MaxDist(1) ELSE d]
         IN  call = [fn |-> "create_multi_filter", heap |-> heap,
                     filter_sets |-> [n \in SetNames |-> body],
                     loaded |-> heap, requests |-> <<>>]

\* A section loader resolves one filter field.
CallCreateMultiFilter(section, sett, default) ==
    /\ call.fn = "create_multi_filter"
    /\ Len(call.requests) < MaxResolves
    /\ LET rtn == create_multi_filter(SectionClass(section), sett, default,
                                      call.heap, call.filter_sets)
       IN  call' = [call EXCEPT
                      !.heap = rtn.heap,
                      !.requests = Append(@,
                          [section |-> section, sett |-> sett,
                           default |-> default,
                           out |-> section_filters(section, rtn)])]
    /\ UNCHANGED <<managers, queue, pc, obj, threads, alerts, cache,
                   gym_team, weather_cache, location, settings, geofences,
                   alarms, now, last_clean, distributed, handled, last_log,
                   event, supervisor, disk, watcher>>

NextMulti ==
    \E section \in {"pokemon", "pokestops"}, sett \in FilterFields :
    \E default \in SectionDefaults(section) :
        CallCreateMultiFilter(section, sett, default)

SpecMulti == InitMulti /\ [][NextMulti]_vars

\* ------------------------------------------------------ the geofence gate
\* The geofence files drawn: up to MaxFences polygons in file order, two of
\* which may share a name or overlap.
MaxFences == 2
FenceNames == {"home", "away", "unknown"}
Fences == {[name |-> n, pts |-> ps] : n \in FenceNames, ps \in SUBSET Points}
FenceLists == UNION {[1..k -> Fences] : k \in 0..MaxFences}

InitGeofence ==
    \E gfs \in FenceLists :
        /\ InitManagers({"m1"}, [m \in ManagerNames |-> DefaultSettings],
                        gfs, {"a1"}, NoneV)
        /\ call = [fn |-> "check_geofences", returned |-> FALSE, lat |-> 0,
                   geofence |-> "", accepted |-> FALSE]

\* "pkmn['geofence'] = self.check_geofences(name, lat, lng)" and the test
\* that follows it in every handler, for an event of Manager m at lat.
CallCheckGeofences(m, lat) ==
    /\ call.fn = "check_geofences"
    /\ call' = [call EXCEPT !.returned = TRUE, !.lat = lat,
                            !.geofence = check_geofences(m, lat, 0),
                            !.accepted = ~outside_geofences(m, lat, 0)]
    /\ UNCHANGED <<managers, queue, pc, obj, threads, alerts, cache,
                   gym_team, weather_cache, location, settings, geofences,
                   alarms, now, last_clean, distributed, handled, last_log,
                   event, supervisor, disk, watcher>>

NextGeofence == \E lat \in Points : CallCheckGeofences("m1", lat)

SpecGeofence == InitGeofence /\ [][NextGeofence]_vars

\* ------------------------------------------------------- the move ratings
\* A filter with drawn rating bounds meets the attack and defense grade of a
\* pokemon, each a letter or the '-' of a payload without rating.
Grades == {GradeA, GradeB, GradeC, GradeD, GradeE, GradeF}

InitRating ==
    /\ InitManagers({"m1"}, [m \in ManagerNames |-> DefaultSettings],
                    <<>>, {"a1"}, NoneV)
    /\ \E lo \in [{"attack", "defense"} -> Grades],
          hi \in [{"attack", "defense"} -> Grades] :
          call = [fn |-> "check_rating",
                  filt |-> with_needs(
                      [PokemonDefaults EXCEPT
                          !.min_rating_attack = lo["attack"],
                          !.max_rating_attack = hi["attack"],
                          !.min_rating_defense = lo["defense"],
                          !.max_rating_defense = hi["defense"]]),
                  pkmn |-> Blank, returned |-> FALSE,
                  attack |-> FALSE, defense |-> FALSE]

\* The two rating steps of check_pokemon_filter for one filter.
CallCheckRating(atk, def) ==
    /\ call.fn = "check_rating"
    /\ ~call.returned
    /\ LET pkmn == [Blank EXCEPT !.rating_attack = atk,
                                 !.rating_defense = def]
       IN  call' = [call EXCEPT
                      !.pkmn = pkmn, !.returned = TRUE,
                      !.attack = check_accepts("rating_attack", call.filt,
                                               pkmn, Unkn),
                      !.defense = check_accepts("rating_defense", call.filt,
                                                pkmn, Unkn)]
    /\ UNCHANGED <<managers, queue, pc, obj, threads, alerts, cache,
                   gym_team, weather_cache, location, settings, geofences,
                   alarms, now, last_clean, distributed, handled, last_log,
                   event, supervisor, disk, watcher>>

NextRating ==
    \E atk \in Grades \cup {Dash}, def \in Grades \cup {Dash} :
        CallCheckRating(atk, def)

SpecRating == InitRating /\ [][NextRating]_vars

\* ---------------------------------------------------- move combinations
\* get_move_id: the id of a move name of the locale files, None for a name
\* they do not have.
MoveNames == {"Tackle", "Ember", "Bite"}
get_move_id(move_name) ==
    CASE move_name = "Tackle" -> 1
      [] move_name = "Ember" -> 2
      [] move_name = "Bite" -> 3
      [] OTHER -> NoneV

\* create_moves_list for a list of names: the set of their ids; a name
\* without id ends the program.
create_moves_list(moves) ==
    IF \E i \in DOMAIN moves : get_move_id(moves[i]) = NoneV
    THEN [kind |-> "exit", ids |-> {}]
    ELSE [kind |-> "ok", ids |-> {get_move_id(moves[i]) : i \in DOMAIN moves}]

\* create_moveset_list: None stays None; every "name/name" string of the
\* list, here written as the names split('/') gives, becomes the set of the
\* ids of its names.
create_moveset_list(moves) ==
    IF moves = None THEN [kind |-> "ok", req_moveset |-> None]
    ELSE IF \E i \in DOMAIN moves[1] :
               create_moves_list(moves[1][i]).kind = "exit"
    THEN [kind |-> "exit", req_moveset |-> None]
    ELSE [kind |-> "ok",
          req_moveset |-> <<{create_moves_list(moves[1][i]).ids :
                               i \in DOMAIN moves[1]}>>]

\* The "moveset" values drawn for a filter definition: none, or up to
\* MaxMovesets combinations of one or two move names.
MaxMovesets == 2
Combinations ==
    UNION {[1..k -> MoveNames \cup {"Splash"}] : k \in 1..2}
Movesets ==
    {None} \cup
    {<<ms>> : ms \in UNION {[1..k -> Combinations] : k \in 0..MaxMovesets}}
MoveIds == 1..4

InitMoveset ==
    /\ InitManagers({"m1"}, [m \in ManagerNames |-> DefaultSettings],
                    <<>>, {"a1"}, NoneV)
    /\ \E moves \in Movesets :
          LET made == create_moveset_list(moves)
          IN  call = [fn |-> "check_moveset", moveset |-> moves,
                      made |-> made.kind,
                      filt |-> [PokemonDefaults EXCEPT
                                  !.req_moveset = made.req_moveset],
                      returned |-> FALSE, a |-> 0, b |-> 0,
                      ab |-> FALSE, ba |-> FALSE]

\* check_moveset is asked about a pair of move ids in both orders.
CallCheckMoveset(a, b) ==
    /\ call.fn = "check_moveset"
    /\ call.made = "ok"
    /\ ~call.returned
    /\ call' = [call EXCEPT !.returned = TRUE, !.a = a, !.b = b,
                            !.ab = check_moveset(call.filt, a, b),
                            !.ba = check_moveset(call.filt, b, a)]
    /\ UNCHANGED <<managers, queue, pc, obj, threads, alerts, cache,
                   gym_team, weather_cache, location, settings, geofences,
                   alarms, now, last_clean, distributed, handled, last_log,
                   event, supervisor, disk, watcher>>

NextMoveset == \E a \in MoveIds, b \in MoveIds : CallCheckMoveset(a, b)

SpecMoveset == InitMoveset /\ [][NextMoveset]_vars

\* ------------------------------------------------------ sending an alert
\* load_alarms_file hands the configured max_attempts to alarm_factory.  A
\* TwitterAlarm is built from its settings alone and send_alert calls
\* try_sending(log, self.connect, "Twitter", self.send_tweet, args) without
\* an attempt count, so its sends run under the count try_sending falls back
\* to; a sink that is handed max_attempts passes it on.
MaxAttempts == 2
AlarmKind(a) == IF a = "a1" THEN "twitter" ELSE "other"
attempt_limit(a) ==
    IF AlarmKind(a) = "twitter" THEN call.default_attempts
    ELSE call.max_attempts

InitSink ==
    /\ InitManagers({"m1"}, [m \in ManagerNames |-> DefaultSettings],
                    <<>>, AlarmIds, 0)
    /\ \E n \in 1..MaxAttempts, d \in 1..MaxAttempts :
          call = [fn |-> "try_sending", max_attempts |-> n,
                  default_attempts |-> d,
                  tries |-> [a \in AlarmIds |-> 0],
                  last |-> [a \in AlarmIds |-> 0],
                  gave_up |-> [a \in AlarmIds |-> FALSE]]

\* One turn of the loop of try_sending in the sink task of alarm a: the send
\* is tried; when it fails the task sleeps and reconnects, and after the
\* last attempt it logs that it gives up and returns.  A reconnect that
\* raises ends the task as well.
SinkAttempt(m, a, outcome) ==
    /\ call.fn = "try_sending"
    /\ m \in managers
    /\ threads[m][a] = "spawned"
    /\ call.tries[a] < attempt_limit(a)
    /\ LET n == call.tries[a] + 1
           ends == \/ outcome \in {"sent", "reconnect raises"}
                   \/ n = attempt_limit(a)
       IN  /\ threads' = [threads EXCEPT ![m][a] =
                             IF ends THEN "done" ELSE @]
           /\ alerts' = [alerts EXCEPT ![m][a] =
                            IF outcome = "sent" THEN @ + 1 ELSE @]
           /\ call' = [call EXCEPT
                  !.tries[a] = IF ends THEN 0 ELSE n,
                  !.last[a] = IF ends THEN n ELSE @,
                  !.gave_up[a] = IF ends THEN outcome = "failed" ELSE @]
    /\ UNCHANGED <<managers, queue, pc, obj, cache, gym_team, weather_cache,
                   location, settings, geofences, alarms, now, last_clean,
                   distributed, handled, last_log, event, supervisor, disk,
                   watcher>>

SinkStep(m, a) ==
    \E outcome \in {"sent", "failed", "reconnect raises"} :
        SinkAttempt(m, a, outcome)

NextSink ==
    \/ WebhookPokestop
    \/ \E m \in ManagerNames : Run(m)
    \/ \E m \in ManagerNames, a \in AlarmIds : SinkStep(m, a)
    \/ \E m \in ManagerNames : Join(m)

\* The Manager's loop and every started sink task keep running: both are
\* threads the interpreter schedules, and the sleep between two attempts is
\* bounded.
SpecSink ==
    /\ InitSink
    /\ [][NextSink]_vars
    /\ WF_vars(Run("m1"))
    /\ WF_vars(Join("m1"))
    /\ \A a \in AlarmIds : WF_vars(SinkStep("m1", a))

\* ------------------------------------------------- the gates of a handler
\* One Manager at point 1 with one kind of notification switched off or
\* none, a time limit, one geofence and filters that either accept any
\* distance or only distance 0; every event lies at point 0.
KindOff(off, s) ==
    [k \in DOMAIN s |->
        IF k = off THEN [s[k] EXCEPT !.enabled = FALSE] ELSE s[k]]
NearOnly(s) ==
    [s EXCEPT
        !.pokemon.filters = (1 :> <<[PokemonDefaults EXCEPT !.max_dist = 0]>>),
        !.pokestop.filters = <<NearFilter>>,
        !.gym.filters = <<[GymDefaults EXCEPT !.max_dist = 0]>>,
        !.egg.max_dist = 0,
        !.raid.filters = (2 :> <<PokemonDefaults>>),
        !.weather.filters = <<NearFilter>>]

InitGates ==
    \E off \in Sections \cup {"none"}, tl \in {0, 2}, gf \in {Fence0, Fence1},
       near \in BOOLEAN :
        LET s == [DefaultSettings EXCEPT !.time_limit = tl]
        IN  InitWith({"m1"}, KindOff(off, IF near THEN NearOnly(s) ELSE s),
                     <<gf>>, {"a1"}, 1)

\* One payload of every kind that has a handler with gates.
WebhookAnyKind ==
    \/ \E t \in ExpTimes :
          Webhook([RawBlank EXCEPT !.type = "pokemon", !.id = "k1",
                      !.expire = t, !.latitude = 0, !.pokemon_id = 1,
                      !.ivsum = 45, !.gender = 1])
    \/ Webhook([RawBlank EXCEPT !.type = "pokestop", !.id = "k1",
                   !.expire = 4, !.latitude = 0])
    \/ \E t \in ExpTimes :
          Webhook([RawBlank EXCEPT !.type = "raid", !.id = "k1",
                      !.start = t, !.expire = 4, !.latitude = 0,
                      !.slots_available = 2, !.level = 5])
    \/ Webhook([RawBlank EXCEPT !.type = "raid", !.id = "k1", !.start = 1,
                   !.expire = 4, !.latitude = 0, !.pokemon_id = 1,
                   !.slots_available = 2, !.level = 5])
    \/ \E tm \in 1..MaxTeam :
          Webhook([RawBlank EXCEPT !.type = "gym_details", !.id = "k1",
                      !.latitude = 0, !.team = tm, !.slots_available = 2])
    \/ \E gw \in {1, 2} :
          Webhook([RawBlank EXCEPT !.type = "weather", !.id = "k1",
                      !.latitude = 0, !.gameplay_weather = gw,
                      !.severity = 0, !.wind_direction = 90])

NextGates ==
    \/ WebhookAnyKind
    \/ \E m \in ManagerNames : Run(m)
    \/ \E m \in ManagerNames, a \in AlarmIds : SinkRun(m, a)
    \/ \E m \in ManagerNames : Join(m)

SpecGates == InitGates /\ [][NextGates]_vars

\* ------------------------------------------------------- the idle loop
\* run with nothing in the queue.  One unit of now is the clean interval of
\* five minutes; the five seconds between two polls and the five seconds
\* get(block=True, timeout=5) waits are less than one unit, so a poll is
\* due as soon as now has moved on and every get returns within the unit.
PollInterval == 0
poll_due(m) == now - call.last_filecheck > PollInterval

InitIdle ==
    /\ InitManagers({"m1"}, [m \in ManagerNames |-> DefaultSettings],
                    <<Fence0>>, {"a1"}, 0)
    /\ call = [fn |-> "run", last_filecheck |-> 0, iterations |-> 0]

\* One iteration of the loop of run that finds the queue empty and the
\* stop flag not set: the sweep when it is due, the poll when it is due
\* (a SystemExit of a loader ends the Manager), then the get that times out
\* and the continue.
IdleIteration(m) ==
    /\ call.fn = "run"
    /\ m \in managers
    /\ pc[m] = "loop"
    /\ queue_Empty(m)
    /\ ~is_set(m)
    /\ cache' = [cache EXCEPT ![m] =
                    IF clean_due(m) THEN clean_and_save(@, now) ELSE @]
    /\ disk' = [disk EXCEPT ![m] =
                   IF clean_due(m)
                   THEN persist(settings[m].cache_type,
                                snapshot(m, clean_and_save(cache[m], now)), @)
                   ELSE @]
    /\ last_clean' = [last_clean EXCEPT ![m] =
                         IF clean_due(m) THEN now ELSE @]
    /\ \E order \in CfgOrders :
         LET st == IF poll_due(m) THEN check_updated_config_files(m, order)
                   ELSE [settings |-> settings[m], alarms |-> alarms[m],
                         geofences |-> geofences[m], watcher |-> watcher[m],
                         exit |-> FALSE]
         IN  /\ settings' = [settings EXCEPT ![m] = st.settings]
             /\ alarms' = [alarms EXCEPT ![m] = st.alarms]
             /\ geofences' = [geofences EXCEPT ![m] = st.geofences]
             /\ watcher' = [watcher EXCEPT ![m] = st.watcher]
             /\ pc' = [pc EXCEPT ![m] = IF st.exit THEN "crashed" ELSE "loop"]
             /\ call' = [call EXCEPT
                    !.last_filecheck =
                        IF poll_due(m) /\ ~st.exit THEN now ELSE @,
                    !.iterations = IF @ < MaxTime THEN @ + 1 ELSE @]
    /\ UNCHANGED <<managers, queue, obj, threads, alerts, gym_team,
                   weather_cache, location, now, distributed, handled,
                   last_log, event, supervisor>>

NextIdle ==
    \/ \E m \in ManagerNames : IdleIteration(m)
    \/ \E m \in ManagerNames, t \in CfgTypes : EditFile(m, t)
    \/ Tick

\* The get of an empty queue returns after its timeout, so the loop comes
\* back to its top as long as the process runs; time passes.
SpecIdle ==
    /\ InitIdle
    /\ [][NextIdle]_vars
    /\ WF_vars(IdleIteration("m1"))
    /\ WF_vars(Tick)

\* ------------------------------------------------------------------ claims
\* Manager m takes an object from its queue in this step.
Popped(m) == handled'[m] # handled[m]

\* The expiration a handler stores in the dedup cache for object o.
DedupExp(o) == IF o.type = "egg" THEN o.begin ELSE o.exp

\* The step handles an object whose key has an entry in the dedup cache.
DedupHit(m) ==
    /\ Popped(m)
    /\ Head(queue[m]).type \in DedupKinds
    /\ settings[m][Head(queue[m]).type].enabled
    /\ cache[m][Head(queue[m]).type][Head(queue[m]).id] # NoneV

\* No sink task is spawned for Manager m in this step.
NoSpawn(m) ==
    /\ pc'[m] = "loop"
    /\ threads'[m] = threads[m]
    /\ alerts'[m] = alerts[m]

\* C1: a pokemon, pokestop, egg or raid object whose key has an entry in
\* the Manager's dedup cache (get_<kind>_expiration is not None) is handled
\* without any sink task being spawned.
C1_DedupAtMostOnce ==
    [][\A m \in ManagerNames : DedupHit(m) => NoSpawn(m)]_vars

\* A key was dispatched and a later delivery of a cached key was skipped.
C1_Witness ==
    \E m \in ManagerNames :
        /\ last_log[m] = "processed"
        /\ \A a \in AlarmIds : alerts[m][a] >= 1

\* C2: after a delivery of a cached key the cached expiration is the one
\* the newest delivery carries.
C2_RefreshOnHit ==
    [][\A m \in ManagerNames : DedupHit(m) =>
          cache'[m][Head(queue[m]).type][Head(queue[m]).id]
              = DedupExp(Head(queue[m]))]_vars

\* What the handlers do on a hit (C2): a delivery of a cached key is not
\* dispatched and leaves the dedup cache as it was; the stored expiration
\* stays the one of the delivery that created the entry.
C2_KeepOnHit ==
    [][\A m \in ManagerNames : DedupHit(m) =>
          NoSpawn(m) /\ cache'[m] = cache[m]]_vars

\* A delivery of a cached key that carried another expiration was skipped.
C2_Witness ==
    \E m \in ManagerNames :
        /\ last_log[m] = "processed"
        /\ obj[m].type = "pokestop"
        /\ cache[m]["pokestop"][obj[m].id] # NoneV
        /\ cache[m]["pokestop"][obj[m].id] # obj[m].exp

\* C10: when a Manager takes the next object from its queue, no sink task
\* spawned for an earlier object is still unfinished.
C10_JoinBeforePop ==
    [][\A m \in ManagerNames :
          Popped(m) => \A a \in AlarmIds : threads[m][a] # "spawned"]_vars

\* The handler waits in the join with one task finished, one not, and the
\* next object already queued.
C10_Witness ==
    \E m \in ManagerNames :
        /\ pc[m] = "join"
        /\ queue[m] # <<>>
        /\ threads[m]["a1"] = "done"
        /\ threads[m]["a2"] = "spawned"

\* The step handles a gym object.
GymPopped(m) == Popped(m) /\ Head(queue[m]).type = "gym"

GymChange(m) ==
    LET o == Head(queue[m]) IN
    /\ GymPopped(m)
    /\ settings[m].gym.enabled
    /\ ~(settings[m].gym.ignore_neutral /\ o.new_team_id = NeutralTeam)
    /\ get_gym_team(m, o.id) # Q
    /\ get_gym_team(m, o.id) # o.new_team_id
    /\ check_gym_filters(settings[m].gym.filters,
                         get_earth_dist(o.lat, location[m]),
                         get_gym_team(m, o.id), o.new_team_id)
    /\ ~outside_geofences(m, o.lat, o.lng)

\* C5: a team change that passes a filter and the geofence gate
\* spawns one sink task for every alarm, and a repeated delivery of the
\* same team spawns none.
C5_ChangeDispatchesOnce ==
    [][\A m \in ManagerNames :
          /\ GymChange(m) =>
                /\ pc'[m] = "join"
                /\ \A a \in alarms[m] : threads'[m][a] = "spawned"
          /\ (GymPopped(m)
                /\ get_gym_team(m, Head(queue[m]).id)
                       = Head(queue[m]).new_team_id)
             => NoSpawn(m)]_vars

\* C6: with ignore_neutral set, a gym event whose team is the
\* neutral team spawns no sink task.
C6_NeutralNeverDispatches ==
    [][\A m \in ManagerNames :
          (GymPopped(m)
             /\ settings[m].gym.ignore_neutral
             /\ Head(queue[m]).new_team_id = NeutralTeam)
          => NoSpawn(m)]_vars

\* The step handles a weather object with weather notifications on.
WeatherPopped(m) ==
    /\ Popped(m)
    /\ Head(queue[m]).type = "weather"
    /\ settings[m].weather.enabled

\* C7: a weather event that is the first one for its cell, or whose
\* gameplay weather and severity both equal the cached ones, spawns no sink
\* task; every weather event handled with weather notifications on
\* overwrites the cached pair with its own.
C7_WeatherSuppression ==
    [][\A m \in ManagerNames : WeatherPopped(m) =>
          LET o == Head(queue[m])
              from_gw == get_weather_change(m, o.id)
              from_sev == get_severity_change(m, o.id)
          IN  /\ (from_gw = Q \/ from_sev = Q) => NoSpawn(m)
              /\ (from_gw = o.new_gameplay_weather
                    /\ from_sev = o.new_severity_weather) => NoSpawn(m)
              /\ weather_cache'[m][o.id]
                    = <<o.new_gameplay_weather, o.new_severity_weather>>]_vars

\* A second event for a cell, equal to the first, was ignored as "no
\* change detected".
C7_Witness ==
    \E m \in ManagerNames :
        /\ last_log[m] = "nochange"
        /\ obj[m].type = "weather"
        /\ weather_cache[m][obj[m].id]
              = <<obj[m].new_gameplay_weather, obj[m].new_severity_weather>>
        /\ Len(handled[m]) >= 2

\* C8: no object taken from the queue stops the Manager; the
\* run loop of every Manager is always still running.
C8_NeverStops == \A m \in ManagerNames : pc[m] # "crashed"

\* The arrival numbers of the objects waiting in a queue, front first.
Waiting(q) == [i \in 1..Len(q) |-> q[i].n]

\* C9: the objects a Manager has taken, followed by the objects waiting in
\* its queue, are all the distributed objects in arrival order, for every
\* registered Manager; and a Manager takes an object only when the handler
\* of the object before it has returned.
C9_FifoBroadcast ==
    /\ [](\A m \in managers : handled[m] \o Waiting(queue[m]) = distributed)
    /\ [][\A m \in ManagerNames : Popped(m) => pc[m] = "loop"]_vars

\* One Manager has handled two objects in arrival order while the other
\* still has both waiting in its queue.
C9_Witness ==
    /\ Len(distributed) >= 2
    /\ Len(handled["m1"]) >= 2
    /\ Len(queue["m2"]) >= 2

\* The step handles a pokemon object that is not in the dedup cache, has at
\* least time_limit left, passes some filter set for its species and lies
\* inside one of the configured geofences.
PokemonFreshPassing(m) ==
    LET o == Head(queue[m]) IN
    /\ Popped(m)
    /\ o.type = "pokemon"
    /\ settings[m].pokemon.enabled
    /\ ~previously_processed(m, "pokemon", o.id)
    /\ ~too_late(m, o.exp)
    /\ o.pkmn_id \in DOMAIN settings[m].pokemon.filters
    /\ check_pokemon_filter(settings[m].pokemon.filters[o.pkmn_id], o,
                            get_earth_dist(o.lat, location[m]))
    /\ Len(geofences[m]) > 0
    /\ check_geofences(m, o.lat, o.lng) # "unknown"

\* C11: a pokemon object that is new to the dedup cache, in time, accepted
\* by a filter of its species and inside a geofence spawns one sink task for
\* every alarm of the Manager, and a delivery of a cached key spawns none.
C11_FreshPassingDispatchesOnce ==
    [][\A m \in ManagerNames :
          /\ PokemonFreshPassing(m) =>
                /\ pc'[m] = "join"
                /\ \A a \in alarms[m] : threads'[m][a] = "spawned"
          /\ (DedupHit(m) /\ Head(queue[m]).type = "pokemon") => NoSpawn(m)]_vars

\* C12: whatever Manager m1 does (its sink task never returns, it has
\* ended in sys.exit, its queue fills up), the distributor can always put
\* the next object, every distributed object is on m2's queue or handled by
\* m2, m2 takes every distributed object, and every sink task m2 spawns
\* gets its alert call.
C12_Isolation ==
    /\ [](Len(distributed) < MaxEvents => ENABLED WebhookLuredPokestop)
    /\ [](handled["m2"] \o Waiting(queue["m2"]) = distributed)
    /\ \A n \in 1..MaxEvents :
          (Len(distributed) >= n) ~> (Len(handled["m2"]) >= n)
    /\ (threads["m2"]["a1"] = "spawned") ~> (threads["m2"]["a1"] = "done")

\* m1 waits for a sink task that has not returned, with an object still
\* on its queue, while m2 has taken every object and its sink was called.
C12_Witness ==
    /\ pc["m1"] = "join"
    /\ threads["m1"]["a1"] = "spawned"
    /\ queue["m1"] # <<>>
    /\ Len(handled["m2"]) = MaxEvents
    /\ alerts["m2"]["a1"] >= 1
    /\ pc["m2"] = "loop"
\* C13: no step of a running Manager, a poll of its watched files included,
\* ends the Manager, whatever the files hold.
C13_ReloadNeverTerminates ==
    [][\A m \in ManagerNames : pc[m] = "loop" => pc'[m] # "crashed"]_vars

\* Watched file t of Manager m has changed since its time stamp was
\* recorded, so the next poll reads it.
Changed(m, t) ==
    /\ watcher[m][t].tstamp # NoneV
    /\ watcher[m][t].mtime # watcher[m][t].tstamp

\* The poll of this step read file t and did not reload it.
FailedReload(m, t) ==
    /\ Poll(m)
    /\ Changed(m, t)
    /\ watcher'[m][t].log \in {"retry", "failed", "exit"}

\* The configuration a Manager can have been given by whole files.
WholeConfig(m) ==
    /\ settings[m] \in {DefaultSettings, NewFilters}
    /\ alarms[m] \in {{"a1"}, NewAlarms}
    /\ geofences[m] \in {<<Fence0>>, NewGeofences}

\* C14: a poll that fails to reload a file leaves what that file
\* configures (the settings dictionaries, the alarm list, the geofence list)
\* as it was, and every object is handled under a configuration that was
\* loaded from whole files.
C14_FailedReloadKeepsConfig ==
    [][\A m \in ManagerNames :
          /\ FailedReload(m, "Filters") => settings'[m] = settings[m]
          /\ FailedReload(m, "Alarms") => alarms'[m] = alarms[m]
          /\ FailedReload(m, "Geofences") => geofences'[m] = geofences[m]
          /\ Popped(m) => WholeConfig(m)]_vars

\* C15: a poll that finds a changed file that is not JSON leaves the
\* recorded time stamp of the file and what the file configures unchanged,
\* and ends at "Retrying" for it unless the poll ended the Manager: the
\* file still counts as changed at the next poll.
C15_NotJsonIsRetried ==
    [][\A m \in ManagerNames, t \in CfgTypes :
          (Poll(m) /\ Changed(m, t) /\ watcher[m][t].content = "notjson") =>
              /\ watcher'[m][t].tstamp = watcher[m][t].tstamp
              /\ t = "Filters" => settings'[m] = settings[m]
              /\ t = "Alarms" => alarms'[m] = alarms[m]
              /\ t = "Geofences" => geofences'[m] = geofences[m]
              /\ pc'[m] = "loop" => watcher'[m][t].log = "retry"]_vars

\* A poll met a changed Filters file that is not JSON: the Manager runs
\* on with the settings and the time stamp it had.
C15_Witness ==
    \E m \in ManagerNames :
        /\ watcher[m]["Filters"].log = "retry"
        /\ watcher[m]["Filters"].content = "notjson"
        /\ watcher[m]["Filters"].tstamp = 0
        /\ watcher[m]["Filters"].mtime = 1
        /\ settings[m] = DefaultSettings
        /\ pc[m] = "loop"
\* C16 as stated: a Manager whose stop flag is set takes no further object
\* from its queue.
C16_NoHandlerAfterStop ==
    [][\A m \in ManagerNames : event[m] => ~Popped(m)]_vars

\* C16 amended: run leaves its loop only at a get that finds the queue
\* empty with the stop flag set; until then a Manager whose flag is set
\* goes on taking the waiting objects from the front of its queue, and it
\* takes none after it has left the loop.
C16_StopOnlyOnEmptyQueue ==
    [][\A m \in ManagerNames :
          /\ (pc[m] = "loop" /\ pc'[m] = "stopped") =>
                (event[m] /\ queue[m] = <<>>)
          /\ Popped(m) =>
                /\ pc[m] = "loop"
                /\ handled'[m] = Append(handled[m], Head(queue[m]).n)
                /\ queue'[m] = Tail(queue[m])]_vars

\* stop() was called with objects waiting in the queue of a Manager that
\* then handled them and left the loop.
C16_Witness ==
    \E m \in ManagerNames :
        /\ m \in supervisor.stopped
        /\ supervisor.qsize[m] >= 1
        /\ pc[m] = "stopped"
        /\ queue[m] = <<>>
        /\ handled[m] = distributed

\* The run of Manager m has ended: by the break of the loop, by a
\* SystemExit, or by the supervisor's terminate.
Ended(m) == pc[m] \in {"stopped", "crashed", "killed"}

\* C17: a Manager whose stop flag is set eventually ends its run, given
\* that its loop keeps going round and every sink task returns (objects
\* stop arriving after MaxEvents of them); objects still queued when the
\* flag is set are handled first.
C17_StopTerminates ==
    \A m \in ManagerNames : event[m] ~> Ended(m)

\* The Manager was told to stop with objects waiting, handled them all and
\* left the loop through the break.
C17_Witness ==
    /\ event["m1"]
    /\ pc["m1"] = "stopped"
    /\ Len(handled["m1"]) = MaxEvents
    /\ supervisor.qsize["m1"] = MaxEvents

\* C19: exit_gracefully has set the stop flag of every Manager before it
\* joins one, and a Manager it has joined is not running.
C19_StopAllThenJoinEnded ==
    /\ supervisor.joined # {} => \A m \in managers : event[m]
    /\ \A m \in supervisor.joined : ~is_alive(m)
\* run leaves its loop in this step, through the break.
Exits(m) == pc[m] = "loop" /\ pc'[m] = "stopped"

\* The step starts the program again after Manager m had left its loop
\* through the break.
RestartsStopped(m) == pc[m] = "stopped" /\ pc'[m] = "loop"

Rotated(k) ==
    [i \in 1..Len(CheckOrder) |->
        CheckOrder[((i + k - 1) % Len(CheckOrder)) + 1]]
Reversed(order) == [i \in 1..Len(order) |-> order[Len(order) + 1 - i]]
Reorderings ==
    {Rotated(k) : k \in 0..(Len(CheckOrder) - 1)}
        \cup {Reversed(Rotated(k)) : k \in 0..(Len(CheckOrder) - 1)}
Rejecting(filt, pkmn, dist) ==
    {c \in Checks : ~check_accepts(c, filt, pkmn, dist)}

Passing ==
    {i \in 1..Len(call.filters) :
        pokemon_filter_passes(call.filters[i], call.pkmn, call.dist)}

\* C21: check_pokemon_filter accepts exactly when some filter of the list
\* passes every check; the mention it returns is the one of the passing filter
\* with the lowest number, and no filter after that one is looked at.
C21_FirstPassingFilterDecides ==
    (call.fn = "check_pokemon_filter" /\ call.returned) =>
        /\ call.passed = (Passing # {})
        /\ \A i \in Passing :
              (\A j \in Passing : i <= j) =>
                  /\ call.mention = call.filters[i].mention
                  /\ call.tried = i
        /\ Passing = {} =>
              call.tried = Len(call.filters) /\ call.mention = call.pkmn.mention

\* A call returned for a list of two passing filters with different mentions.
C21_Witness ==
    /\ call.fn = "check_pokemon_filter"
    /\ call.returned
    /\ Passing = {1, 2}
    /\ call.filters[1].mention # call.filters[2].mention

\* The fourteen checked fields, whether the event lacks the value of field
\* c, and whether filter filt constrains c.
FieldChecks == Checks \ {"dist"}
MissingIn(c, pkmn) ==
    CASE c = "cp" -> pkmn.cp = Q
      [] c = "level" -> pkmn.level = Q
      [] c = "iv" -> pkmn.iv = Q
      [] c = "atk" -> pkmn.atk = Q
      [] c = "def" -> pkmn.def = Q
      [] c = "sta" -> pkmn.sta = Q
      [] c = "quick_move" -> pkmn.quick_id = Q
      [] c = "charge_move" -> pkmn.charge_id = Q
      [] c = "moveset" -> pkmn.quick_id = Q \/ pkmn.charge_id = Q
      [] c = "size" -> pkmn.size = "unknown"
      [] c = "gender" -> pkmn.gender = "unknown"
      [] c = "form" -> pkmn.form_id = Q
      [] c = "rating_attack" -> pkmn.rating_attack \in {Q, Dash}
      [] c = "rating_defense" -> pkmn.rating_defense \in {Q, Dash}
Constrains(filt, c) ==
    CASE c = "cp" -> filt.needs_cp
      [] c = "level" -> filt.needs_level
      [] c = "iv" -> filt.needs_iv
      [] c = "atk" -> filt.needs_atk
      [] c = "def" -> filt.needs_def
      [] c = "sta" -> filt.needs_sta
      [] c = "quick_move" -> filt.req_quick_move # None
      [] c = "charge_move" -> filt.req_charge_move # None
      [] c = "moveset" -> filt.req_moveset # None
      [] c = "size" -> filt.sizes # None
      [] c = "gender" -> filt.genders # None
      [] c = "form" -> filt.forms # None
      [] c = "rating_attack" -> filt.needs_rating_attack
      [] c = "rating_defense" -> filt.needs_rating_defense

\* C22: for each of the fourteen checked fields, when the event lacks the
\* value, the filter rejects if it constrains the field and ignore_missing is
\* set, and otherwise the check of that field does not reject.
C22_MissingRejectsOnlyWhenNeeded ==
    (call.fn = "check_pokemon_filter" /\ call.returned) =>
        LET F == call.filters[1]
        IN  \A c \in FieldChecks :
              MissingIn(c, call.pkmn) =>
                  /\ (Constrains(F, c) /\ F.ignore_missing) => ~call.passed
                  /\ ~(Constrains(F, c) /\ F.ignore_missing) =>
                        check_accepts(c, F, call.pkmn, call.dist)

\* The range r of filter f has its lower bound at or below its upper bound;
\* for a rating that is min_rating no better than max_rating.
Ordered(f, r) ==
    IF IsRating(r) THEN f["min_" \o r] >= f["max_" \o r]
    ELSE f["min_" \o r] <= f["max_" \o r]

\* C23: every filter that construction returns has min <= max in each of its
\* ranges; a definition with min above max is refused and gives no filter.
C23_ConstructedRangesOrdered ==
    (call.fn = "PokemonFilter" /\ call.returned /\ ~call.rejected) =>
        \A r \in Ranges : Ordered(call.filt, r)

\* The team list named key that holds for the filter of the call: its own,
\* else the one of the section default, else the one of the system defaults.
Inherited(key) ==
    IF call.filter[key] # None THEN call.filter[key][1]
    ELSE IF call.default[key] # None THEN call.default[key][1]
    ELSE GymDefaults[key]

\* C24: a gym filter accepts a team change exactly when the prior team is in
\* its from set and the new team in its to set, a set it does not configure
\* being the from_team (for from) or to_team (for to) of the section default.
C24_GymTeamsInherited ==
    (call.fn = "GymFilter" /\ call.returned) =>
        call.passed = (/\ call.from_team_id \in Inherited("from_team")
                       /\ call.to_team_id \in Inherited("to_team"))

\* C25: resolving names leaves the stored named filters and filter sets as
\* load_filters stored them, and two resolutions of one filter field under the
\* same default give filters with equal field values, whatever was resolved
\* in between and for whichever section.
C25_ResolvingNamesHasValueSemantics ==
    call.fn = "create_multi_filter" =>
        /\ call.heap = call.loaded
        /\ \A i \in DOMAIN call.requests, j \in DOMAIN call.requests :
              (/\ call.requests[i].sett = call.requests[j].sett
               /\ call.requests[i].default = call.requests[j].default) =>
                  call.requests[i].out = call.requests[j].out

\* The filter set was resolved for one section, then the named filter it
\* contains was resolved for another.
C25_Witness ==
    /\ call.fn = "create_multi_filter"
    /\ Len(call.requests) = 2
    /\ call.requests[1].sett = [shape |-> "name", name |-> "s1"]
    /\ call.requests[2].sett = [shape |-> "name", name |-> "n1"]
    /\ call.requests[1].section # call.requests[2].section
    /\ call.requests[2].out.why = "loaded"

\* What resolving the filter field of request req is to give: the filters
\* built from the definitions as load_filters stored them.
FiltersOf(req, defs) ==
    [why |-> "loaded",
     filters |-> [i \in DOMAIN defs |->
                    FilterType(SectionClass(req.section), defs[i],
                               req.default)]]
Refused == [why |-> "exit", filters |-> <<>>]
DefinitionOf(e) == IF e.shape = "dict" THEN e.def ELSE call.loaded[e.name]
Expected(req) ==
    LET f == req.sett
    IN  CASE f.shape = "bool" /\ f.value -> FiltersOf(req, <<EmptyDefinition>>)
          [] f.shape = "bool" /\ ~f.value -> FiltersOf(req, <<>>)
          [] f.shape = "dict" -> FiltersOf(req, <<f.def>>)
          [] f.shape = "list" ->
                IF \A i \in DOMAIN f.elems : known_element(f.elems[i])
                THEN FiltersOf(req, [i \in DOMAIN f.elems |->
                                        DefinitionOf(f.elems[i])])
                ELSE Refused
          [] f.shape = "name" /\ f.name \in SetNames ->
                FiltersOf(req, [i \in DOMAIN call.filter_sets[f.name] |->
                                  call.loaded[call.filter_sets[f.name][i]]])
          [] f.shape = "name" /\ f.name \in FilterNames ->
                FiltersOf(req, <<call.loaded[f.name]>>)
          [] OTHER -> Refused

\* C26: true gives one filter equal to the inherited default, false gives no
\* filters, a filter object one filter, a list one filter per element in the
\* same order, a bare name the named filter or the filters of the named set,
\* and every other value is refused with a configuration error.
C26_FiveShapesOfFilterField ==
    call.fn = "create_multi_filter" =>
        \A i \in DOMAIN call.requests :
            call.requests[i].out = Expected(call.requests[i])

\* The polygons of Manager m that contain the point of the checked event.
Containing(m) ==
    {i \in DOMAIN geofences[m] : gf_contains(geofences[m][i], call.lat, 0)}
Lowest(S) == CHOOSE i \in S : \A j \in S : i <= j

\* C27: the geofence gate accepts an event exactly when the Manager has no
\* geofence or some geofence contains the event's point, and an event
\* accepted with geofences configured carries the name of the first
\* geofence, in configured order, that contains the point.
C27_GateAcceptsInsideAnyGeofence ==
    (call.fn = "check_geofences" /\ call.returned) =>
        /\ call.accepted <=>
              (Len(geofences["m1"]) = 0 \/ Containing("m1") # {})
        /\ (call.accepted /\ Len(geofences["m1"]) > 0) =>
              /\ Containing("m1") # {}
              /\ call.geofence =
                    geofences["m1"][Lowest(Containing("m1"))].name

\* The grades from best to worst, and the place of a grade in that order.
GradeOrder == <<GradeA, GradeB, GradeC, GradeD, GradeE, GradeF>>
Place(g) == CHOOSE i \in DOMAIN GradeOrder : GradeOrder[i] = g
Between(g, min, max) == Place(max) <= Place(g) /\ Place(g) <= Place(min)
Graded == call.fn = "check_rating" /\ call.returned

\* C28: the attack and the defense rating check accept a grade exactly when
\* it is no better than the filter's max rating and no worse than its min
\* rating in the order A > B > ... > F: min F with max A accepts every
\* grade, and min B with max A accepts A and B and no other grade.
C28_GradeAcceptedBetweenBounds ==
    Graded =>
        LET f == call.filt
            a == call.pkmn.rating_attack
            d == call.pkmn.rating_defense
        IN  /\ a \in Grades =>
                  /\ call.attack <=>
                        Between(a, f.min_rating_attack, f.max_rating_attack)
                  /\ (f.min_rating_attack = GradeF
                        /\ f.max_rating_attack = GradeA) => call.attack
                  /\ (f.min_rating_attack = GradeB
                        /\ f.max_rating_attack = GradeA) =>
                        (call.attack <=> a \in {GradeA, GradeB})
            /\ d \in Grades =>
                  /\ call.defense <=>
                        Between(d, f.min_rating_defense, f.max_rating_defense)
                  /\ (f.min_rating_defense = GradeF
                        /\ f.max_rating_defense = GradeA) => call.defense
                  /\ (f.min_rating_defense = GradeB
                        /\ f.max_rating_defense = GradeA) =>
                        (call.defense <=> d \in {GradeA, GradeB})
\* A filter of min B and max A has rejected attack grade C and accepted
\* defense grade B.
C28_Witness ==
    /\ Graded
    /\ call.filt.min_rating_attack = GradeB
    /\ call.filt.max_rating_attack = GradeA
    /\ call.filt.min_rating_defense = GradeB
    /\ call.filt.max_rating_defense = GradeA
    /\ call.pkmn.rating_attack = GradeC /\ ~call.attack
    /\ call.pkmn.rating_defense = GradeB /\ call.defense

\* Some combination of the definition names both move a and move b.
NamesBoth(moves, a, b) ==
    \E i \in DOMAIN moves[1] :
        \E j \in DOMAIN moves[1][i], k \in DOMAIN moves[1][i] :
            /\ get_move_id(moves[1][i][j]) = a
            /\ get_move_id(moves[1][i][k]) = b

\* C29: check_moveset gives the same answer for (a, b) and (b, a), and the
\* answer is yes exactly when the filter requires no combination or one of
\* its configured combinations contains both moves.
C29_MovesetSymmetric ==
    (call.fn = "check_moveset" /\ call.returned) =>
        /\ call.ab = call.ba
        /\ call.ab <=>
              (call.moveset = None \/ NamesBoth(call.moveset, call.a, call.b))
\* A filter with two combinations has accepted a pair of different moves
\* given in the order opposite to the definition's.
C29_Witness ==
    /\ call.fn = "check_moveset" /\ call.returned
    /\ call.moveset = <<<< <<"Tackle", "Ember">>, <<"Bite">> >>>>
    /\ call.a = 2 /\ call.b = 1
    /\ call.ab /\ call.ba

\* No sink task has tried, or tries, a send more often than configured.
AttemptsWithinConfigured ==
    \A a \in AlarmIds :
        /\ call.tries[a] <= call.max_attempts
        /\ call.last[a] <= call.max_attempts
\* A step of a sink task puts nothing on the queue of its Manager.
SinkLeavesQueue ==
    \A m \in ManagerNames, a \in AlarmIds :
        SinkStep(m, a) => queue' = queue
\* The join on the sink tasks of an event completes.
JoinCompletes == (pc["m1"] = "join") ~> (pc["m1"] = "loop")

\* C30: a send that fails on every attempt is tried at most the configured
\* max_attempts times for one event and is then dropped: the event is not
\* put back on the queue, the sink task ends and the join completes.
C30_FailingSendBoundedAndDropped ==
    /\ [](call.fn = "try_sending" => AttemptsWithinConfigured)
    /\ [][SinkLeavesQueue]_vars
    /\ JoinCompletes

\* The step is a cache sweep of Manager m.
Swept(m) == last_clean'[m] # last_clean[m]
\* The step spawns sink tasks for an object of a deduplicated kind.
Dispatches(m) ==
    /\ Popped(m)
    /\ Head(queue[m]).type \in DedupKinds
    /\ pc'[m] = "join"

\* C31: a sweep at time now removes every dedup entry that expires at or
\* before now and leaves every later entry as it is; an entry disappears
\* only in a sweep at or after its expiration, and an object is dispatched
\* only when its key has no entry.
C31_SweepRemovesExpiredOnly ==
    [][\A m \in ManagerNames :
          /\ Swept(m) =>
                \A k \in DedupKinds, i \in Keys :
                    LET e == cache[m][k][i]
                    IN  cache'[m][k][i] =
                            IF e # NoneV /\ e <= now THEN NoneV ELSE e
          /\ \A k \in DedupKinds, i \in Keys :
                (cache[m][k][i] # NoneV /\ cache'[m][k][i] = NoneV) =>
                    Swept(m) /\ cache[m][k][i] <= now
          /\ Dispatches(m) =>
                cache[m][Head(queue[m]).type][Head(queue[m]).id] = NoneV]_vars
\* Two objects were dispatched and a sweep has run: the entry of one is
\* gone and the other, which expires later, is still there.
C31_Witness ==
    \E m \in ManagerNames :
        /\ last_clean[m] > 0
        /\ alerts[m]["a1"] = 2
        /\ \E k \in DedupKinds, i \in Keys :
              /\ cache[m][k][i] # NoneV /\ cache[m][k][i] > now
              /\ \A k2 \in DedupKinds, i2 \in Keys :
                    <<k2, i2>> # <<k, i>> => cache[m][k2][i2] = NoneV

\* The gates in the claimed order, and for an object o taken by Manager m
\* the first of them that does not let o through ("passed" when all do).
FilterPresent(m, o) ==
    o.type \in {"pokemon", "raid"} =>
        o.pkmn_id \in DOMAIN settings[m][o.type].filters
FilterMatch(m, o) ==
    LET dist == get_earth_dist(o.lat, location[m])
    IN  CASE o.type = "pokemon" ->
                check_pokemon_filter(settings[m].pokemon.filters[o.pkmn_id],
                                     o, dist)
          [] o.type = "raid" ->
                check_pokemon_filter(settings[m].raid.filters[o.pkmn_id],
                    [o EXCEPT !.iv = 100, !.level = 20, !.def = 15,
                              !.atk = 15, !.sta = 15, !.gender = "unknown",
                              !.size = "unknown", !.form_id = Q,
                              !.rating_attack = GradeA,
                              !.rating_defense = GradeA], dist)
          [] o.type = "egg" -> check_egg_filter(settings[m].egg, o, dist)
          [] o.type = "gym" ->
                check_gym_filters(settings[m].gym.filters, dist,
                                  gym_team[m][o.id], o.new_team_id)
          [] OTHER -> check_dist_filters(settings[m][o.type].filters, dist)
FirstClosedGate(m, o) ==
    IF ~settings[m][o.type].enabled THEN "disabled"
    ELSE IF o.type \in DedupKinds /\ cache[m][o.type][o.id] # NoneV
    THEN "processed"
    ELSE IF o.type \in DedupKinds /\ too_late(m, DedupExp(o)) THEN "late"
    ELSE IF ~FilterPresent(m, o) THEN "nofilter"
    ELSE IF ~FilterMatch(m, o) THEN "filter"
    ELSE IF outside_geofences(m, o.lat, o.lng) THEN "geofence"
    ELSE "passed"
Gates == {"disabled", "processed", "late", "nofilter", "filter", "geofence"}
Gated(m) == Popped(m) /\ Head(queue[m]).type \in Sections

\* C32: every handler applies its gates in the order enabled, dedup, time
\* remaining, filter presence, filter match, geofence: the gate that turns
\* an object away is the first in that order that it does not pass, and an
\* object of a kind that is switched off changes nothing in the cache.
C32_GatesInFixedOrder ==
    [][\A m \in ManagerNames : Gated(m) =>
          LET o == Head(queue[m])
          IN  /\ last_log'[m] \in Gates =>
                    last_log'[m] = FirstClosedGate(m, o)
              /\ ~settings[m][o.type].enabled =>
                    /\ cache'[m] = cache[m]
                    /\ gym_team'[m] = gym_team[m]
                    /\ weather_cache'[m] = weather_cache[m]]_vars

\* C33: with an empty queue the loop of a Manager keeps iterating: a sweep
\* that is due is made and a poll that is due is made.
C33_IdleLoopKeepsMaintaining ==
    /\ (call.fn = "run" /\ clean_due("m1")) ~> ~clean_due("m1")
    /\ (call.fn = "run" /\ poll_due("m1")) ~> ~poll_due("m1")

\* The numeric bounds of a filter, and the value the definition of the call
\* gives bound k: its own when it names the bound, else the default's.
NumericKeys == {k \in RangeKeys : \A r \in Ranges : IsRating(r) =>
                                      k \notin {"min_" \o r, "max_" \o r}}
GivenOrInherited(k) ==
    IF call.settings[k] # NoneV THEN call.settings[k] ELSE call.default[k]

\* C34: a numeric bound the filter definition gives, the value 0 included,
\* is the bound of the constructed filter, and a bound the definition omits
\* is the one of the inherited default.
C34_BoundsGivenOrInherited ==
    (call.fn = "PokemonFilter" /\ call.returned) =>
        \A k \in NumericKeys : call.filt[k] = GivenOrInherited(k)

\* The step handles an object of a deduplicated kind that has no entry yet
\* and is turned away by the time, filter or geofence gate.
FreshRejected(m) ==
    /\ Gated(m)
    /\ Head(queue[m]).type \in DedupKinds
    /\ settings[m][Head(queue[m]).type].enabled
    /\ cache[m][Head(queue[m]).type][Head(queue[m]).id] = NoneV
    /\ last_log'[m] \in {"late", "nofilter", "filter", "geofence"}
\* Object o would pass every gate after the dedup check.
PassesOtherGates(m, o) ==
    /\ ~too_late(m, DedupExp(o))
    /\ FilterPresent(m, o)
    /\ FilterMatch(m, o)
    /\ ~outside_geofences(m, o.lat, o.lng)

\* C35: an object that is new to the dedup cache and is turned away by the
\* time, filter or geofence gate is recorded in the cache all the same, and
\* a later object with the same key is skipped as previously processed
\* while the entry is there, whatever its data.
C35_RejectedEventIsRecorded ==
    [][\A m \in ManagerNames :
          /\ FreshRejected(m) =>
                LET o == Head(queue[m])
                IN  /\ cache'[m][o.type][o.id] = DedupExp(o)
                    /\ cache'[m][o.type][o.id] # NoneV
          /\ DedupHit(m) =>
                /\ NoSpawn(m)
                /\ last_log'[m] = "processed"
                /\ cache'[m] = cache[m]]_vars
\* An egg that was too close to hatching was recorded; the next egg of the
\* same gym, which would pass every gate, was skipped and nothing was sent.
C35_Witness ==
    \E m \in ManagerNames :
        /\ Len(handled[m]) = 2
        /\ obj[m].type = "egg"
        /\ last_log[m] = "processed"
        /\ cache[m]["egg"][obj[m].id] # NoneV
        /\ cache[m]["egg"][obj[m].id] < obj[m].begin
        /\ PassesOtherGates(m, obj[m])
        /\ alerts[m]["a1"] = 0
        /\ threads[m]["a1"] = "none"

\* ------------------------------------------------------ the data queue
\* The payloads a map scanner posts: one that converts of every kind, and
\* the ones the normalizer turns away.
Payloads ==
    { [RawBlank EXCEPT !.type = "pokemon", !.expire = 4, !.latitude = 0,
                       !.pokemon_id = 1],
      [RawBlank EXCEPT !.type = "pokemon", !.expire = 4, !.latitude = 0],
      [RawBlank EXCEPT !.type = "pokemon", !.latitude = 0, !.pokemon_id = 1],
      [RawBlank EXCEPT !.type = "pokestop", !.expire = 4, !.latitude = 0],
      [RawBlank EXCEPT !.type = "pokestop", !.latitude = 0],
      [RawBlank EXCEPT !.type = "pokestop", !.expire = 4],
      [RawBlank EXCEPT !.type = "gym_details", !.latitude = 0, !.team = 1],
      [RawBlank EXCEPT !.type = "gym_details", !.latitude = 0],
      [RawBlank EXCEPT !.type = "raid", !.start = 1, !.expire = 4,
                       !.latitude = 0, !.pokemon_id = 1],
      [RawBlank EXCEPT !.type = "raid", !.start = 1, !.expire = 4],
      [RawBlank EXCEPT !.type = "weather", !.latitude = 0,
                       !.gameplay_weather = 1, !.severity = 0],
      [RawBlank EXCEPT !.type = "weather", !.latitude = 0, !.severity = 0],
      [RawBlank EXCEPT !.type = "captcha"],
      [RawBlank EXCEPT !.type = "gym", !.latitude = 0, !.team = 1] }

\* data_queue of start_pokealarm is empty and two Managers are registered.
InitDataQueue ==
    /\ InitManagers({"m1", "m2"}, [m \in ManagerNames |-> DefaultSettings],
                    <<Fence0>>, {"a1"}, 0)
    /\ call = [fn |-> "manage_webhook_data", data_queue |-> <<>>,
               accepted |-> 0, taken |-> 0, data |-> RawBlank,
               obj |-> Blank]

\* accept_webhook: data_queue.put(data).
AcceptWebhook(data) ==
    /\ call.accepted < MaxEvents
    /\ call' = [call EXCEPT !.data_queue = Append(@, data),
                            !.accepted = @ + 1]
    /\ UNCHANGED <<managers, queue, pc, obj, threads, alerts, cache, gym_team,
                   weather_cache, location, settings, geofences, alarms, now,
                   last_clean, distributed, handled, last_log, event,
                   supervisor, disk, watcher>>

\* One iteration of the loop of manage_webhook_data: data_queue.get, the
\* normalizer, the puts, task_done.
ManageWebhookData ==
    /\ call.data_queue # <<>>
    /\ Distribute(Head(call.data_queue))
    /\ call' = [call EXCEPT !.data_queue = Tail(@), !.taken = @ + 1,
                            !.data = Head(call.data_queue),
                            !.obj = make_object(Head(call.data_queue))]

NextDataQueue ==
    \/ \E data \in Payloads : AcceptWebhook(data)
    \/ ManageWebhookData

\* manage_webhook_data is the loop of a thread of its own: it blocks in
\* data_queue.get only while the queue is empty.
SpecDataQueue ==
    InitDataQueue /\ [][NextDataQueue]_vars /\ WF_vars(ManageWebhookData)

\* The kinds make_object has a branch for that returns an object.
ConvertedKinds ==
    {"pokemon", "pokestop", "gym_details", "raid", "location", "weather"}
\* A payload of the claim's list: an unsupported type, a pokestop without a
\* lure, or a payload without a field its normalizer reads by subscript or
\* converts with int().
CannotConvert(d) ==
    \/ d.type \notin ConvertedKinds
    \/ d.type = "pokestop" /\ d.expire = NoneV
    \/ d.type # "location" /\ d.latitude = NoneV
    \/ d.type = "pokemon" /\ (d.pokemon_id = NoneV \/ d.expire = NoneV)
    \/ d.type = "gym_details" /\ d.team = NoneV
    \/ d.type = "weather"
          /\ (d.gameplay_weather = NoneV \/ d.severity = NoneV)
\* The step takes a payload from data_queue.
Taken == call.fn = "manage_webhook_data" /\ call'.taken = call.taken + 1

\* C38: a payload the normalizer cannot convert yields None and is put on
\* no Manager's queue, a payload it converts is put on the queue of every
\* Manager, and the distributor takes every payload that is accepted, the
\* ones after a payload it dropped included.
C38_UnconvertibleIsDropped ==
    /\ [][Taken =>
            LET d == Head(call.data_queue)
            IN  IF CannotConvert(d)
                THEN /\ call'.obj = Blank
                     /\ queue' = queue
                     /\ distributed' = distributed
                ELSE /\ call'.obj # Blank
                     /\ \A m \in managers :
                           /\ Len(queue'[m]) = Len(queue[m]) + 1
                           /\ queue'[m][Len(queue'[m])].type = call'.obj.type]_vars
    /\ \A n \in 1..MaxEvents :
          (call.fn = "manage_webhook_data" /\ call.accepted >= n)
              ~> (call.taken >= n)
\* A pokestop without a lure was dropped, and the pokemon posted after it
\* is on the queue of both Managers.
C38_Witness ==
    /\ call.fn = "manage_webhook_data"
    /\ call.taken = 2
    /\ call.obj.type = "pokemon"
    /\ Len(distributed) = 1
    /\ \A m \in managers :
          Len(queue[m]) = 1 /\ queue[m][1].type = "pokemon"

Reloaded(m, t) ==
    /\ watcher'[m][t] # watcher[m][t]
    /\ watcher'[m][t].log = "reloaded"
    /\ Poll(m)
\* The step does not write file t.
NotWritten(m, t) ==
    /\ watcher'[m][t].mtime = watcher[m][t].mtime
    /\ watcher'[m][t].content = watcher[m][t].content
\* What file t configures is the same after the step.
ConfiguredSame(m, t) ==
    /\ t = "Filters" => settings'[m] = settings[m]
    /\ t = "Alarms" => alarms'[m] = alarms[m]
    /\ t = "Geofences" => geofences'[m] = geofences[m]

\* C37: the first poll of a file records its modification time and reloads
\* nothing; a poll reloads a file only when the file has changed since the
\* recorded time, and a reload records the time of the file it read; while
\* the recorded time equals the time of the file, no step, a poll included,
\* changes the recorded time or what the file configures.  So a change of
\* a file is reloaded at most once.
C37_ReloadedAtMostOncePerChange ==
    [][\A m \in ManagerNames, t \in CfgTypes :
          /\ (watcher[m][t].tstamp = NoneV /\ Poll(m)) =>
                /\ watcher'[m][t].tstamp = watcher[m][t].mtime
                /\ watcher'[m][t].log = "first"
                /\ ConfiguredSame(m, t)
          /\ Reloaded(m, t) =>
                /\ Changed(m, t)
                /\ watcher'[m][t].tstamp = watcher[m][t].mtime
          /\ (watcher[m][t].tstamp = watcher[m][t].mtime
                /\ NotWritten(m, t)) =>
                /\ watcher'[m][t].tstamp = watcher[m][t].tstamp
                /\ watcher'[m][t].log \in {watcher[m][t].log, "same"}
                /\ ConfiguredSame(m, t)]_vars
\* A rewritten Filters file was reloaded, and a later poll found its time
\* equal to the recorded one.
C37_Witness ==
    \E m \in ManagerNames :
        /\ watcher[m]["Filters"].log = "same"
        /\ watcher[m]["Filters"].tstamp = 1
        /\ watcher[m]["Filters"].mtime = 1
        /\ settings[m] = NewFilters
        /\ pc[m] = "loop"

\* The step handles an egg or a raid while its kind is switched on.
EggOrRaidPopped(m) ==
    /\ Popped(m)
    /\ Head(queue[m]).type \in {"egg", "raid"}
    /\ settings[m][Head(queue[m]).type].enabled
\* Of the two kinds that share the gym id as their key, the other one.
OtherKind(kind) == IF kind = "egg" THEN "raid" ELSE "egg"

\* C39: an egg is skipped as previously processed exactly when the egg
\* table has an entry for its key, and a raid exactly when the raid table
\* has one, whatever the table of the other kind holds; handling an egg
\* leaves the raid table as it is and handling a raid leaves the egg table
\* as it is.
C39_EggAndRaidEntriesIndependent ==
    [][\A m \in ManagerNames : EggOrRaidPopped(m) =>
          LET o == Head(queue[m])
          IN  /\ (last_log'[m] = "processed")
                    <=> (cache[m][o.type][o.id] # NoneV)
              /\ cache'[m][OtherKind(o.type)] = cache[m][OtherKind(o.type)]
              /\ cache[m][o.type][o.id] = NoneV =>
                    cache'[m][o.type][o.id] = DedupExp(o)]_vars
\* The raid of a gym was dispatched while the egg table held the entry of
\* the egg of the same gym.
C39_Witness ==
    \E m \in ManagerNames :
        /\ obj[m].type = "raid"
        /\ last_log[m] = "dispatch"
        /\ pc[m] = "join"
        /\ cache[m]["egg"][obj[m].id] # NoneV
        /\ cache[m]["raid"][obj[m].id] = obj[m].exp

====
